---------------------------- MODULE Spec2Model ----------------------------
(***************************************************************************)
(* A model of lib/dbusx/_dbus.c (python-dbusx): the D-Bus signature        *)
(* grammar engine (get_one_full_type, _check_signature), the numeric       *)
(* bounds table (check_number), the argument encoder (message_append_arg,  *)
(* message_append_args, Message.set_args) and the argument decoder         *)
(* (message_read_arg, message_read_args, Message.args).                    *)
(*                                                                         *)
(* C strings are sequences of one-character strings ending in NUL; a       *)
(* pointer into a buffer is a 1-based index, and the NULL pointer is 0.    *)
(* The Python 3 build is modelled (PyUnicode_Check accepts str only,       *)
(* PyLong_Check accepts int and its subclass bool).  libdbus calls are     *)
(* taken never to run out of memory.                                       *)
(***************************************************************************)
EXTENDS Integers, Sequences, FiniteSets, TLC

(***************************************************************************)
(* Characters and C strings                                                *)
(***************************************************************************)
NUL == ""
NULL == 0

DBUS_TYPE_ARRAY == "a"
DBUS_STRUCT_BEGIN_CHAR == "("
DBUS_STRUCT_END_CHAR == ")"
DBUS_DICT_ENTRY_BEGIN_CHAR == "{"
DBUS_DICT_ENTRY_END_CHAR == "}"
DBUS_TYPE_BYTE == "y"
DBUS_TYPE_BOOLEAN == "b"
DBUS_TYPE_INT16 == "n"
DBUS_TYPE_UINT16 == "q"
DBUS_TYPE_INT32 == "i"
DBUS_TYPE_UINT32 == "u"
DBUS_TYPE_INT64 == "x"
DBUS_TYPE_UINT64 == "t"
DBUS_TYPE_DOUBLE == "d"
DBUS_TYPE_STRING == "s"
DBUS_TYPE_OBJECT_PATH == "o"
DBUS_TYPE_SIGNATURE == "g"
DBUS_TYPE_VARIANT == "v"

\* The buffer that holds the C string s: its characters and the terminator.
CBuffer(s) == Append(s, NUL)

\* strlen: the number of characters before the first NUL at or after p.
strlen(buf, p) ==
    CHOOSE n \in 0..(Len(buf) - p) :
        /\ buf[p + n] = NUL
        /\ \A k \in 0..(n - 1) : buf[p + k] # NUL

\* The C string that starts at p, as a sequence of characters.
CString(buf, p) == SubSeq(buf, p, p + strlen(buf, p) - 1)

\* A C loop, or a chain of calls and returns, is modelled as the repeated
\* application of a step F to a state record with a field `done`; F leaves a
\* state that is done as it is, so any n that is at least the number of steps
\* gives the final state.  (The halving keeps TLC's evaluation shallow.)
RECURSIVE Iterate(_, _, _)
Iterate(F(_), st, n) ==
    IF n = 0 THEN st
    ELSE IF n = 1 THEN F(st)
    ELSE LET mid == Iterate(F, st, n \div 2) IN
         IF mid.done THEN mid ELSE Iterate(F, mid, n - (n \div 2))

Rep(c, n) == [k \in 1..n |-> c]

(***************************************************************************)
(* get_one_full_type                                                       *)
(***************************************************************************)
\* One evaluation of the condition of the loop of lines 286-289 (with its
\* pre-increment of `end`) and, when it holds, of the loop's body.
ScanStep(buf, signature, endtype, st) ==
    IF st.done THEN st
    ELSE LET e == st.end + 1 IN
         IF buf[e] # NUL /\ st.depth > 0
         THEN [end |-> e,
               depth |-> IF buf[e] = buf[signature] THEN st.depth + 1
                         ELSE IF buf[e] = endtype THEN st.depth - 1
                         ELSE st.depth,
               done |-> FALSE]
         ELSE [end |-> e, depth |-> st.depth, done |-> TRUE]

\* Lines 285-289: `end` and `depth` when the loop is left.
ScanBracket(buf, signature, endtype) ==
    Iterate(LAMBDA st : ScanStep(buf, signature, endtype, st),
            [end |-> signature, depth |-> 1, done |-> FALSE], Len(buf))

\* The closer that the switch of lines 266-282 selects, NUL when none.
EndType(c) ==
    IF c = DBUS_STRUCT_BEGIN_CHAR THEN DBUS_STRUCT_END_CHAR
    ELSE IF c = DBUS_DICT_ENTRY_BEGIN_CHAR THEN DBUS_DICT_ENTRY_END_CHAR
    ELSE NUL

\* Returns the pointer after the first full type (NULL on failure) and
\* whether a Python exception was raised (RETURN_ERROR at line 291).
RECURSIVE get_one_full_type(_, _)
get_one_full_type(buf, signature) ==
    LET c == buf[signature] IN
    IF c = DBUS_TYPE_ARRAY
    THEN get_one_full_type(buf, signature + 1)
    ELSE IF EndType(c) # NUL
    THEN LET r == ScanBracket(buf, signature, EndType(c)) IN
         IF r.depth # 0
         THEN [end |-> NULL, exc |-> TRUE]
         ELSE [end |-> r.end, exc |-> FALSE]
    ELSE IF c = NUL
    THEN [end |-> NULL, exc |-> FALSE]
    ELSE [end |-> signature + 1, exc |-> FALSE]

(***************************************************************************)
(* _check_signature                                                        *)
(***************************************************************************)
ArrayDepthLimit == 32
StructDepthLimit == 32
SignatureLengthLimit == 255

\* strchr("ybnqiuxtdsogvh", c) != NULL, for c # NUL (line 316).
BasicTypeCodes == {"y", "b", "n", "q", "i", "u", "x", "t", "d", "s", "o", "g", "v", "h"}
\* A variant of IsBasicTypeCode that takes any character for a type code.
IsBasicTypeCode_AnyChar(c) == c # NUL
IsBasicTypeCode(c) == c \in BasicTypeCodes

\* Variants of the three limits that are off by one.
ArrayTooDeep_OffByOne(arraydepth) == arraydepth > ArrayDepthLimit
SpanTooLong_OffByOne(span) == span >= SignatureLengthLimit

\* Line 318.
ArrayTooDeep(arraydepth) == arraydepth >= ArrayDepthLimit
\* Line 325.
StructTooDeep(structdepth) == structdepth >= StructDepthLimit
\* Line 338.
SpanTooLong(span) == span > SignatureLengthLimit

\* Lines 330-334: the closer stored at line 326 is not the opener's own.
WrongCloser(opener, store) ==
    \/ opener = DBUS_STRUCT_BEGIN_CHAR /\ store # DBUS_STRUCT_END_CHAR
    \/ opener = DBUS_DICT_ENTRY_BEGIN_CHAR /\ store # DBUS_DICT_ENTRY_END_CHAR

\* _check_signature calls itself up to 64 deep, so its calls are modelled
\* with an explicit call stack.  A frame holds the arguments arraydepth and
\* structdepth and the locals start, ptr, end and store of one call, and
\* `wait`: "loop" at the head of the while loop, "array" or "struct" while the
\* call of line 320 or line 327 is running.  The state holds the buffer, the
\* stack, the value the last call returned (ret) and whether a Python
\* exception is pending (exc); it is done when the outermost call returned.
SigTop(st) == st.stack[Len(st.stack)]
SigSetTop(st, f) == [st EXCEPT !.stack[Len(st.stack)] = f]

\* A call of _check_signature(signature, arraydepth, structdepth): line 310-311.
SigCall(st, signature, arraydepth, structdepth) ==
    [st EXCEPT !.stack = Append(@, [start |-> signature, ptr |-> signature,
                                    arraydepth |-> arraydepth,
                                    structdepth |-> structdepth,
                                    end |-> signature, store |-> NUL,
                                    wait |-> "loop"])]

\* `return val`.
SigReturn(st, val) ==
    [st EXCEPT !.stack = SubSeq(@, 1, Len(@) - 1),
               !.ret = val,
               !.done = (Len(st.stack) = 1)]

\* One pass of the while loop of lines 312-337 up to the recursive call, or,
\* when *ptr is NUL, the exit of the loop and the check of line 338 (there
\* end = ptr, or end = start = ptr when the loop never ran).  f is the
\* frame of the call and g what get_one_full_type(ptr) returned.
CheckLoopBody(st, f, g) ==
    LET buf == st.buf
        ptr == f.ptr
        end == g.end
        st1 == [st EXCEPT !.exc = @ \/ g.exc]
    IN
    IF end = NULL THEN SigReturn(st1, FALSE)
    ELSE IF end - ptr = 1
    THEN IF ~IsBasicTypeCode(buf[ptr]) THEN SigReturn(st1, FALSE)
         ELSE SigSetTop(st1, [f EXCEPT !.ptr = end])
    ELSE IF buf[ptr] = DBUS_TYPE_ARRAY
    THEN IF ArrayTooDeep(f.arraydepth) THEN SigReturn(st1, FALSE)
         ELSE \* store = *end; *end = '\000'; _check_signature(ptr+1, ...)
              SigCall([SigSetTop(st1, [f EXCEPT !.end = end, !.store = buf[end],
                                                !.wait = "array"])
                         EXCEPT !.buf[end] = NUL],
                      ptr + 1, f.arraydepth + 1, f.structdepth)
    ELSE IF buf[ptr] = DBUS_STRUCT_BEGIN_CHAR \/ buf[ptr] = DBUS_DICT_ENTRY_BEGIN_CHAR
    THEN IF StructTooDeep(f.structdepth) THEN SigReturn(st1, FALSE)
         ELSE \* store = *--end; *end = '\000'; _check_signature(ptr+1, ...)
              SigCall([SigSetTop(st1, [f EXCEPT !.end = end - 1, !.store = buf[end - 1],
                                                !.wait = "struct"])
                         EXCEPT !.buf[end - 1] = NUL],
                      ptr + 1, f.arraydepth, f.structdepth + 1)
    ELSE SigSetTop(st1, [f EXCEPT !.ptr = end])

CheckLoopHead(st, f) ==
    IF st.buf[f.ptr] = NUL THEN SigReturn(st, ~SpanTooLong(f.ptr - f.start))
    ELSE CheckLoopBody(st, f, get_one_full_type(st.buf, f.ptr))

CheckLoopPass(st) == CheckLoopHead(st, SigTop(st))

\* Lines 320-322 and 336, once the call of line 320 has returned st.ret.
CheckAfterArray(st) ==
    LET f == SigTop(st) IN
    IF ~st.ret THEN SigReturn(st, FALSE)
    ELSE [SigSetTop(st, [f EXCEPT !.ptr = f.end, !.wait = "loop"])
            EXCEPT !.buf[f.end] = f.store]

\* Lines 327-336, once the call of line 327 has returned st.ret.
CheckAfterStruct(st) ==
    LET f == SigTop(st)
        restored == [st EXCEPT !.buf[f.end] = f.store]   \* *end++ = store
    IN
    IF ~st.ret THEN SigReturn(st, FALSE)
    ELSE IF WrongCloser(st.buf[f.ptr], f.store) THEN SigReturn(restored, FALSE)
    ELSE SigSetTop(restored, [f EXCEPT !.ptr = f.end + 1, !.wait = "loop"])

CheckStep(st) ==
    IF st.done THEN st
    ELSE IF SigTop(st).wait = "loop" THEN CheckLoopPass(st)
    ELSE IF SigTop(st).wait = "array" THEN CheckAfterArray(st)
    ELSE CheckAfterStruct(st)

\* _check_signature(signature, arraydepth, structdepth) on the C string at
\* `signature` in `buf`: .ok is its return value, .buf the buffer as it
\* leaves it, .exc whether it leaves a Python exception pending.  Every
\* character costs at most three steps.
_check_signature(buf, signature, arraydepth, structdepth) ==
    LET st0 == [buf |-> buf, stack |-> <<>>, ret |-> FALSE, exc |-> FALSE,
                done |-> FALSE]
        r == Iterate(CheckStep, SigCall(st0, signature, arraydepth, structdepth),
                     3 * Len(buf))
    IN [ok |-> r.done /\ r.ret, buf |-> r.buf, exc |-> r.exc, returned |-> r.done]

(***************************************************************************)
(* Python integers                                                         *)
(*                                                                         *)
(* A Python int is unbounded, and the bounds of check_number go to 2^64,   *)
(* beyond TLC's own integers: an int is a sign and a magnitude, the        *)
(* magnitude a sequence of hexadecimal digits, most significant first,     *)
(* without leading zeros (zero is the empty sequence, never negative).     *)
(***************************************************************************)
HexChars == <<"0", "1", "2", "3", "4", "5", "6", "7", "8", "9",
              "a", "b", "c", "d", "e", "f">>
HexValue(c) == (CHOOSE k \in 1..16 : HexChars[k] = c) - 1

RECURSIVE StripZeros(_)
StripZeros(m) == IF m # <<>> /\ m[1] = 0 THEN StripZeros(Tail(m)) ELSE m

BigInt(neg, mag) ==
    LET m == StripZeros(mag) IN [neg |-> neg /\ m # <<>>, mag |-> m]

\* PyLong_FromString(text, NULL, 0) for the texts of check_numbers: an
\* optional "-", then "0x" and hexadecimal digits (line 365).
PyLong_FromString(text) ==
    LET neg == text[1] = "-"
        digits == SubSeq(text, IF neg THEN 4 ELSE 3, Len(text))
    IN BigInt(neg, [k \in 1..Len(digits) |-> HexValue(digits[k])])

MagLess(x, y) ==
    \/ Len(x) < Len(y)
    \/ /\ Len(x) = Len(y)
       /\ \E k \in 1..Len(x) : x[k] < y[k] /\ \A j \in 1..(k - 1) : x[j] = y[j]

\* PyObject_RichCompareBool(a, b, Py_LT) == 1 and (a, b, Py_GT) == 1 on ints.
PyLongLT(a, b) ==
    IF a.neg # b.neg THEN a.neg
    ELSE IF a.neg THEN MagLess(b.mag, a.mag)
    ELSE MagLess(a.mag, b.mag)
PyLongGT(a, b) == PyLongLT(b, a)

\* The low `digits` hexadecimal digits of the two's complement form of an
\* int: what PyLong_AsLong and its kin, followed by the assignment to a
\* field of that width, leave in the basic_value union.
PadTo(m, digits) ==
    IF Len(m) >= digits THEN SubSeq(m, Len(m) - digits + 1, Len(m))
    ELSE Rep(0, digits - Len(m)) \o m
RECURSIVE AddOne(_)
AddOne(m) ==
    IF m = <<>> THEN <<>>
    ELSE IF m[Len(m)] < 15 THEN [m EXCEPT ![Len(m)] = @ + 1]
    ELSE Append(AddOne(SubSeq(m, 1, Len(m) - 1)), 0)
ToBits(n, digits) ==
    IF ~n.neg THEN PadTo(n.mag, digits)
    ELSE AddOne([k \in 1..digits |-> 15 - PadTo(n.mag, digits)[k]])

\* PyLong_FromLong(value.i16) and its kin: the int that the bits stand for,
\* as an unsigned or as a signed (two's complement) number.
FromBitsUnsigned(bits) == BigInt(FALSE, bits)
FromBitsSigned(bits) ==
    IF bits[1] < 8 THEN BigInt(FALSE, bits)
    ELSE BigInt(TRUE, AddOne([k \in 1..Len(bits) |-> 15 - bits[k]]))

(***************************************************************************)
(* check_number and its table                                              *)
(***************************************************************************)
\* check_numbers, lines 348-354, and the cache built from it, lines 364-369.
check_numbers ==
    << <<"0", "x", "0">>,
       <<"0", "x">> \o Rep("f", 2),
       <<"0", "x">> \o Rep("f", 4),
       <<"0", "x">> \o Rep("f", 8),
       <<"0", "x">> \o Rep("f", 16),
       <<"-", "0", "x", "8">> \o Rep("0", 3),
       <<"0", "x", "7">> \o Rep("f", 3),
       <<"-", "0", "x", "8">> \o Rep("0", 7),
       <<"0", "x", "7">> \o Rep("f", 7),
       <<"-", "0", "x", "8">> \o Rep("0", 15),
       <<"0", "x", "7">> \o Rep("f", 15) >>
\* check_number_cache[i], with the C index i from 0.
check_number_cache(i) == PyLong_FromString(check_numbers[i + 1])

\* A variant of the table's use that takes the byte's upper bound for uint16.
NumberBounds_WrongRow(type) ==
    IF type = DBUS_TYPE_BYTE THEN <<0, 1>>
    ELSE IF type = DBUS_TYPE_UINT16 THEN <<0, 1>>
    ELSE IF type = DBUS_TYPE_UINT32 THEN <<0, 3>>
    ELSE IF type = DBUS_TYPE_UINT64 THEN <<0, 4>>
    ELSE IF type = DBUS_TYPE_INT16 THEN <<5, 6>>
    ELSE IF type = DBUS_TYPE_INT32 THEN <<7, 8>>
    ELSE IF type = DBUS_TYPE_INT64 THEN <<9, 10>>
    ELSE <<>>

\* The switch of lines 390-421: the cache indices of Pmin and Pmax, <<>> for
\* the default case.
NumberBounds(type) ==
    IF type = DBUS_TYPE_BYTE THEN <<0, 1>>
    ELSE IF type = DBUS_TYPE_UINT16 THEN <<0, 2>>
    ELSE IF type = DBUS_TYPE_UINT32 THEN <<0, 3>>
    ELSE IF type = DBUS_TYPE_UINT64 THEN <<0, 4>>
    ELSE IF type = DBUS_TYPE_INT16 THEN <<5, 6>>
    ELSE IF type = DBUS_TYPE_INT32 THEN <<7, 8>>
    ELSE IF type = DBUS_TYPE_INT64 THEN <<9, 10>>
    ELSE <<>>

(***************************************************************************)
(* Python values                                                           *)
(*                                                                         *)
(* A value is a record [t, v]: t names the Python type and v is an int (as *)
(* above) for "int", a boolean for "bool", an int for "float" (the double  *)
(* nearest to it; only such doubles occur), a sequence of characters for   *)
(* "str", of small numbers for "bytes", of values for "tuple" and "list",  *)
(* and of <<key, value>> pairs in insertion order for "dict".              *)
(***************************************************************************)
PyInt(n) == [t |-> "int", v |-> n]
PyBool(b) == [t |-> "bool", v |-> b]
PyFloat(n) == [t |-> "float", v |-> n]
PyStr(chars) == [t |-> "str", v |-> chars]
PyBytes(bytes) == [t |-> "bytes", v |-> bytes]
PyTuple(items) == [t |-> "tuple", v |-> items]
PyList(items) == [t |-> "list", v |-> items]
PyDict(pairs) == [t |-> "dict", v |-> pairs]
PyNone == [t |-> "none", v |-> <<>>]

Small(k) == BigInt(k < 0, IF k < 0 THEN <<(-k) \div 16, (-k) % 16>> ELSE <<k \div 16, k % 16>>)

\* PyLong_Check: int and its subclass bool.
PyLong_Check(o) == o.t \in {"int", "bool"}
\* The int a PyLong_Check'ed object stands for.
AsPyLong(o) == IF o.t = "bool" THEN Small(IF o.v THEN 1 ELSE 0) ELSE o.v
PyUnicode_Check(o) == o.t = "str"
PyBytes_Check(o) == o.t = "bytes"
PyDict_Check(o) == o.t = "dict"
\* PySequence_Check: types with sq_item; a dict is not one.
PySequence_Check(o) == o.t \in {"tuple", "list", "str", "bytes"}
\* The items PySequence_GetItem yields, in order (PySequence_Size of them).
PySequence_Items(o) ==
    IF o.t = "str" THEN [k \in 1..Len(o.v) |-> PyStr(<<o.v[k]>>)]
    ELSE IF o.t = "bytes" THEN [k \in 1..Len(o.v) |-> PyInt(Small(o.v[k]))]
    ELSE o.v
PySequence_Size(o) == Len(o.v)
\* PyDict_Items: the list of (key, value) tuples.
PyDict_Items(o) == PyList([k \in 1..Len(o.v) |-> PyTuple(o.v[k])])
\* PyObject_IsTrue on the values above (it cannot fail on them).
PyObject_IsTrue(o) ==
    IF o.t = "bool" THEN o.v
    ELSE IF o.t \in {"int", "float"} THEN o.v.mag # <<>>
    ELSE IF o.t = "none" THEN FALSE
    ELSE o.v # <<>>
\* PyFloat_AsDouble: defined on float and on int (bool included); on an int
\* wider than 13 hexadecimal digits the conversion rounds, which is not
\* modelled: no such int is converted here.
PyFloat_Convertible(o) == o.t \in {"float", "int", "bool"}
PyFloat_AsDouble(o) == IF o.t = "float" THEN o.v ELSE AsPyLong(o)
\* PyUnicode_AsUTF8 hands out a C string: what follows an embedded NUL is
\* not seen by the C code that reads it.
PyUnicode_AsUTF8(o) == CString(CBuffer(o.v), 1)

\* check_number(number, type), lines 382-430: "" when it returns 1, else the
\* exception it raises.  (The default case returns 0 with no exception set;
\* message_append_arg only calls it with the seven integer codes.)
check_number(number, type) ==
    IF ~PyLong_Check(number) THEN "TypeError"
    ELSE IF NumberBounds(type) = <<>> THEN "none set"
    ELSE LET Pmin == check_number_cache(NumberBounds(type)[1])
             Pmax == check_number_cache(NumberBounds(type)[2])
         IN IF PyLongLT(AsPyLong(number), Pmin) \/ PyLongGT(AsPyLong(number), Pmax)
            THEN "ValueError"
            ELSE ""

(***************************************************************************)
(* _check_path, lines 201-216                                              *)
(***************************************************************************)
Digits == {"0", "1", "2", "3", "4", "5", "6", "7", "8", "9"}
Letters ==
    {"a", "b", "c", "d", "e", "f", "g", "h", "i", "j", "k", "l", "m", "n",
     "o", "p", "q", "r", "s", "t", "u", "v", "w", "x", "y", "z",
     "A", "B", "C", "D", "E", "F", "G", "H", "I", "J", "K", "L", "M", "N",
     "O", "P", "Q", "R", "S", "T", "U", "V", "W", "X", "Y", "Z"}
isalnum(c) == c \in Letters \cup Digits

\* path is a NUL-terminated buffer; path[i] of the C code is buf[i + 1].
\* The loop returns 0 at the first character that fails its test, which is
\* the same as some character before the NUL failing it.
\* A variant of _check_path without the test on consecutive slashes.
_check_path_AnySlash(buf) ==
    LET n == strlen(buf, 1) IN
    /\ buf[1] = "/"
    /\ \A i \in 1..(n - 1) : isalnum(buf[i + 1]) \/ buf[i + 1] \in {"_", "/"}
    /\ ~(n > 1 /\ buf[n] = "/")
_check_path(buf) ==
    LET n == strlen(buf, 1) IN
    /\ buf[1] = "/"
    /\ \A i \in 1..(n - 1) :
          \/ isalnum(buf[i + 1])
          \/ buf[i + 1] = "_"
          \/ buf[i + 1] = "/" /\ buf[i] # "/"
    /\ ~(n > 1 /\ buf[n] = "/")

(***************************************************************************)
(* _check_bus_name, lines 180-199                                          *)
(***************************************************************************)
DBUS_MAXIMUM_NAME_LENGTH == 255
isalpha(c) == c \in Letters
isdigit(c) == c \in Digits

\* i > DBUS_MAXIMUM_NAME_LENGTH (line 196).
\* A variant of TooLongName that lets one character more pass.
TooLongName_OneMore(i) == i > DBUS_MAXIMUM_NAME_LENGTH + 1
TooLongName(i) == i > DBUS_MAXIMUM_NAME_LENGTH

\* i > 0 && (name[i-1] != '.' || name[0] == ':') (line 193); prev is
\* name[i-1], read only when i > 0.
\* A variant of DigitAllowed without the exception for unique names.
DigitAllowed_NoException(i, prev, first) == i > 0 /\ prev # "."
DigitAllowed(i, prev, first) == i > 0 /\ (prev # "." \/ first = ":")

\* The test of lines 190-193 on name[i], which is c; prev is name[i-1],
\* which the C code reads for a '.' and, when i > 0, for a digit.
BusNameChar(c, i, prev, first) ==
    \/ isalpha(c)
    \/ c = "_"
    \/ c = "-"
    \/ c = "." /\ prev # "." /\ prev # ":"
    \/ c = ":" /\ i = 0
    \/ isdigit(c) /\ DigitAllowed(i, prev, first)

\* name is a NUL-terminated buffer; name[i] of the C code is buf[i + 1].
\* For the empty string the test of line 196 reads name[-1], the byte in
\* front of the buffer, which is `before`.
_check_bus_name(buf, before) ==
    LET n == strlen(buf, 1)
        ndots == Cardinality({i \in 0..(n - 1) : buf[i + 1] = "."})
    IN
    /\ buf[1] # "."
    /\ \A i \in 0..(n - 1) :
          BusNameChar(buf[i + 1], i, IF i = 0 THEN before ELSE buf[i], buf[1])
    /\ ~(\/ (IF n = 0 THEN before ELSE buf[n]) = "."
         \/ ndots = 0
         \/ TooLongName(n))

(***************************************************************************)
(* _check_interface, lines 218-235, and _check_member, lines 237-251       *)
(***************************************************************************)
\* The test of lines 227-230 on interface[i], which is c, with i >= 1; prev
\* is interface[i-1].
\* A variant of InterfaceChar that lets a digit follow a '.'.
InterfaceChar_DigitAfterDot(c, prev) ==
    \/ isalpha(c)
    \/ c = "_"
    \/ c = "." /\ prev # "."
    \/ isdigit(c)
InterfaceChar(c, prev) ==
    \/ isalpha(c)
    \/ c = "_"
    \/ c = "." /\ prev # "."
    \/ isdigit(c) /\ prev # "."

\* interface[i] of the C code is buf[i + 1]; the loop starts at i = 1, and
\* for the empty string line 224 returns before anything else is read.
_check_interface(buf) ==
    LET n == strlen(buf, 1)
        ndots == Cardinality({i \in 1..(n - 1) : buf[i + 1] = "."})
    IN
    /\ isalpha(buf[1]) \/ buf[1] = "_"
    /\ \A i \in 1..(n - 1) : InterfaceChar(buf[i + 1], buf[i])
    /\ ~(buf[n] = "." \/ ndots = 0 \/ TooLongName(n))

\* A variant of _check_member without the test on the length.
_check_member_AnyLength(buf) ==
    LET n == strlen(buf, 1) IN
    /\ isalpha(buf[1]) \/ buf[1] = "_"
    /\ \A i \in 1..(n - 1) : isalnum(buf[i + 1]) \/ buf[i + 1] = "_"
_check_member(buf) ==
    LET n == strlen(buf, 1) IN
    /\ isalpha(buf[1]) \/ buf[1] = "_"
    /\ \A i \in 1..(n - 1) : isalnum(buf[i + 1]) \/ buf[i + 1] = "_"
    /\ ~TooLongName(n)

(***************************************************************************)
(* The message body as libdbus builds and reads it                         *)
(*                                                                         *)
(* A written value is an item [t, v, x]: t its D-Bus type code, v the bits *)
(* of a number, the characters of a string or the items of a container,    *)
(* and x the contained signature an array or a variant is tagged with.     *)
(* The message under construction is a stack of frames, the body at the    *)
(* bottom and one frame above it for every container opened and not yet    *)
(* closed; the iterator of the C code is the top of the stack.             *)
(***************************************************************************)
DBUS_TYPE_STRUCT == "r"
DBUS_TYPE_DICT_ENTRY == "e"

Item(t, v, x) == [t |-> t, v |-> v, x |-> x]
Frame(t, x) == [t |-> t, x |-> x, items |-> <<>>]
EmptyMessage == <<Frame("body", <<>>)>>

dbus_message_iter_append_basic(m, type, value) ==
    [m EXCEPT ![Len(m)].items = Append(@, Item(type, value, <<>>))]
dbus_message_iter_open_container(m, type, contained) ==
    Append(m, Frame(type, contained))
dbus_message_iter_close_container(m) ==
    LET n == Len(m) - 1 IN
    [SubSeq(m, 1, n) EXCEPT ![n].items = Append(@, Item(m[n + 1].t, m[n + 1].items, m[n + 1].x))]

\* dbus_message_iter_append_fixed_array of bytes: one byte item for each.
dbus_message_iter_append_fixed_array(m, type, bytes) ==
    [m EXCEPT ![Len(m)].items =
        @ \o [k \in 1..Len(bytes) |-> Item(type, <<bytes[k] \div 16, bytes[k] % 16>>, <<>>)]]

(***************************************************************************)
(* message_append_arg and message_append_args, lines 1309-1539             *)
(*                                                                         *)
(* The two functions call each other; their activations are the frames of  *)
(* an explicit call stack, and EncStep runs the top frame up to its next   *)
(* call or return.  A frame holds the arguments (sig, arg, depth) and the  *)
(* locals of its activation: i is the loop index i of message_append_arg   *)
(* and curarg of message_append_args, items the items of Parray, end and   *)
(* store those of message_append_args, saved the signature buffer that was *)
(* current before a variant made its own (subtype).  text is the C string  *)
(* at sig when the function was entered.  The log records, in program      *)
(* order, what each activation did: "enter", "check" (the checks on the    *)
(* value of a container type), "open", "write", "close", and "return1" or  *)
(* "return0".                                                              *)
(***************************************************************************)
EncTop(st) == st.calls[Len(st.calls)]
EncSetTop(st, f) == [st EXCEPT !.calls[Len(st.calls)] = f]
EncEvent(ev, f) ==
    [ev |-> ev, fn |-> f.fn, id |-> f.id, sig |-> f.text, arg |-> f.arg, depth |-> f.depth]
EncLog(st, ev) == [st EXCEPT !.log = Append(@, EncEvent(ev, EncTop(st)))]

EncCall(st, fn, sig, arg, depth) ==
    LET f == [fn |-> fn, pc |-> "entry", id |-> st.nid + 1, sig |-> sig,
              text |-> CString(st.buf, sig), arg |-> arg, depth |-> depth,
              i |-> 0, items |-> <<>>, end |-> NULL, store |-> NUL, saved |-> <<>>]
    IN EncLog([st EXCEPT !.calls = Append(@, f), !.nid = @ + 1], "enter")

\* return 1, or the error label's return 0.
EncReturn(st, val) ==
    LET n == Len(st.calls)
        st1 == EncLog(st, IF val THEN "return1" ELSE "return0")
    IN [st1 EXCEPT !.calls = SubSeq(@, 1, n - 1), !.ret = val, !.done = (n = 1)]
\* RETURN_TYPE_ERROR, RETURN_VALUE_ERROR, RETURN_ERROR(fmt): lines 32-75.
EncRaise(st, exc) == EncReturn([st EXCEPT !.err = exc], FALSE)
\* dbus_message_iter_append_basic; break; return 1.
EncWrite(st, type, value) ==
    EncReturn(EncLog([st EXCEPT !.msg = dbus_message_iter_append_basic(@, type, value)],
                     "write"), TRUE)
\* dbus_message_iter_close_container; break; return 1.
EncClose(st) ==
    EncReturn(EncLog([st EXCEPT !.msg = dbus_message_iter_close_container(@)], "close"), TRUE)

IntegerTypeCodes ==
    {DBUS_TYPE_BYTE, DBUS_TYPE_INT16, DBUS_TYPE_UINT16, DBUS_TYPE_INT32,
     DBUS_TYPE_UINT32, DBUS_TYPE_INT64, DBUS_TYPE_UINT64}
\* The width, in hexadecimal digits, of the basic_value field each integer
\* case assigns to (u8, i16, u16, i32, u32, i64, u64).
BitsWidth(type) ==
    IF type = DBUS_TYPE_BYTE THEN 2
    ELSE IF type \in {DBUS_TYPE_INT16, DBUS_TYPE_UINT16} THEN 4
    ELSE IF type \in {DBUS_TYPE_INT32, DBUS_TYPE_UINT32} THEN 8
    ELSE 16

\* The integer cases, lines 1320-1326 and 1334-1375; r is what check_number
\* made of the value.
AppendChecked(st, c, arg, r) ==
    IF r # "" THEN EncRaise(st, r)
    ELSE EncWrite(st, c, ToBits(AsPyLong(arg), BitsWidth(c)))
AppendNumber(st) ==
    AppendChecked(st, st.buf[EncTop(st).sig], EncTop(st).arg,
                  check_number(EncTop(st).arg, st.buf[EncTop(st).sig]))

\* DBUS_TYPE_BOOLEAN, lines 1327-1333, and DBUS_TYPE_DOUBLE, lines 1376-1382.
AppendBoolean(st) ==
    EncWrite(st, DBUS_TYPE_BOOLEAN, <<IF PyObject_IsTrue(EncTop(st).arg) THEN 1 ELSE 0>>)
AppendDouble(st) ==
    IF ~PyFloat_Convertible(EncTop(st).arg) THEN EncRaise(st, "TypeError")
    ELSE EncWrite(st, DBUS_TYPE_DOUBLE, PyFloat_AsDouble(EncTop(st).arg))

\* DBUS_TYPE_OBJECT_PATH, DBUS_TYPE_SIGNATURE and DBUS_TYPE_STRING, lines
\* 1383-1410.  (_check_signature works in the str object's own buffer here;
\* what a failed check leaves in it is not part of the message.)
AppendText(st) ==
    LET f == EncTop(st)
        c == st.buf[f.sig]
        str == PyUnicode_AsUTF8(f.arg)
    IN IF ~PyUnicode_Check(f.arg) THEN EncRaise(st, "TypeError")
       ELSE IF c = DBUS_TYPE_OBJECT_PATH /\ ~_check_path(CBuffer(str))
       THEN EncRaise(st, "ValueError")
       ELSE IF c = DBUS_TYPE_SIGNATURE /\ ~_check_signature(CBuffer(str), 1, 0, 0).ok
       THEN EncRaise(st, "ValueError")
       ELSE EncWrite(st, c, str)

\* DBUS_STRUCT_BEGIN_CHAR, lines 1411-1421, and DBUS_DICT_ENTRY_BEGIN_CHAR,
\* lines 1454-1464: the container is opened, then the value is checked.
AppendStruct(st) ==
    LET f == EncTop(st)
        type == IF st.buf[f.sig] = DBUS_STRUCT_BEGIN_CHAR
                THEN DBUS_TYPE_STRUCT ELSE DBUS_TYPE_DICT_ENTRY
        st1 == EncLog([st EXCEPT !.msg = dbus_message_iter_open_container(@, type, <<>>)],
                      "open")
        st2 == EncLog(st1, "check")
    IN IF ~PySequence_Check(f.arg) THEN EncRaise(st2, "TypeError")
       ELSE EncCall(EncSetTop(st2, [f EXCEPT !.pc = "container_ret"]),
                    "args", f.sig + 1, f.arg, f.depth + 1)

\* After the call that fills a struct, a dict-entry or a variant.
AppendContainerRet(st) ==
    IF ~st.ret THEN EncReturn(st, FALSE) ELSE EncClose(st)

\* DBUS_TYPE_ARRAY, lines 1422-1453.
AppendArray(st) ==
    LET f == EncTop(st)
        sub == st.buf[f.sig + 1]
        st1 == EncLog([st EXCEPT !.msg = dbus_message_iter_open_container(
                                            @, DBUS_TYPE_ARRAY, CString(st.buf, f.sig + 1))],
                      "open")
        st2 == EncLog(st1, "check")
        Loop(items) == EncSetTop(st2, [f EXCEPT !.pc = "array_loop", !.items = items])
    IN IF sub = DBUS_TYPE_BYTE
       THEN IF ~PyBytes_Check(f.arg) THEN EncRaise(st2, "TypeError")
            ELSE EncClose(EncLog([st2 EXCEPT !.msg = dbus_message_iter_append_fixed_array(
                                                        @, sub, f.arg.v)], "write"))
       ELSE IF sub = DBUS_DICT_ENTRY_BEGIN_CHAR
       THEN IF ~PyDict_Check(f.arg) THEN EncRaise(st2, "TypeError")
            ELSE Loop(PySequence_Items(PyDict_Items(f.arg)))
       ELSE IF ~PySequence_Check(f.arg) THEN EncRaise(st2, "TypeError")
            ELSE Loop(PySequence_Items(f.arg))

\* The for loop of lines 1442-1447 and the close of line 1451.
AppendArrayLoop(st) ==
    LET f == EncTop(st) IN
    IF f.i < Len(f.items)
    THEN EncCall(EncSetTop(st, [f EXCEPT !.pc = "array_ret"]),
                 "arg", f.sig + 1, f.items[f.i + 1], f.depth + 1)
    ELSE EncClose(st)
AppendArrayRet(st) ==
    IF ~st.ret THEN EncReturn(st, FALSE)
    ELSE EncSetTop(st, [EncTop(st) EXCEPT !.i = @ + 1, !.pc = "array_loop"])

\* DBUS_TYPE_VARIANT, lines 1465-1496: the checks, then the container.
\* subtype is a buffer of its own (strdup), current until the call returns.
\* Lines 1484-1490: end is what get_one_full_type(subtype) returned.
AppendVariantOpen(st, f, Pvalue, subtype, end) ==
    IF end = NULL \/ subtype[end] # NUL THEN EncRaise(st, "ValueError")
    ELSE EncCall([EncSetTop(EncLog([st EXCEPT !.msg = dbus_message_iter_open_container(
                                                         @, DBUS_TYPE_VARIANT,
                                                         CString(subtype, 1))],
                                   "open"),
                            [f EXCEPT !.pc = "variant_ret", !.saved = st.buf])
                    EXCEPT !.buf = subtype],
                 "arg", 1, Pvalue, f.depth + 1)
\* Lines 1482-1483: r is what _check_signature(subtype, 0, 0) returned.
AppendVariantChecked(st, f, Pvalue, r) ==
    IF ~r.ok THEN EncRaise(st, "ValueError")
    ELSE AppendVariantOpen(st, f, Pvalue, r.buf, get_one_full_type(r.buf, 1).end)
\* Lines 1472-1481.
AppendVariantItems(st, f, Ptype, Pvalue) ==
    IF ~PyUnicode_Check(Ptype) THEN EncRaise(st, "TypeError")
    ELSE AppendVariantChecked(st, f, Pvalue,
                              _check_signature(CBuffer(PyUnicode_AsUTF8(Ptype)), 1, 0, 0))
\* Lines 1466-1471.
AppendVariantValue(st, f) ==
    IF ~PySequence_Check(f.arg) THEN EncRaise(st, "TypeError")
    ELSE IF PySequence_Size(f.arg) # 2 THEN EncRaise(st, "ValueError")
    ELSE AppendVariantItems(st, f, PySequence_Items(f.arg)[1], PySequence_Items(f.arg)[2])
AppendVariant(st) == AppendVariantValue(EncLog(st, "check"), EncTop(st))
\* free(subtype), on the way out and at the error label alike.
AppendVariantRet(st) ==
    AppendContainerRet([st EXCEPT !.buf = EncTop(st).saved])

\* The switch of message_append_arg, line 1319, with its default case.
AppendArgEntry(st) ==
    LET c == st.buf[EncTop(st).sig] IN
    IF c \in IntegerTypeCodes THEN AppendNumber(st)
    ELSE IF c = DBUS_TYPE_BOOLEAN THEN AppendBoolean(st)
    ELSE IF c = DBUS_TYPE_DOUBLE THEN AppendDouble(st)
    ELSE IF c \in {DBUS_TYPE_OBJECT_PATH, DBUS_TYPE_SIGNATURE, DBUS_TYPE_STRING}
    THEN AppendText(st)
    ELSE IF c \in {DBUS_STRUCT_BEGIN_CHAR, DBUS_DICT_ENTRY_BEGIN_CHAR} THEN AppendStruct(st)
    ELSE IF c = DBUS_TYPE_ARRAY THEN AppendArray(st)
    ELSE IF c = DBUS_TYPE_VARIANT THEN AppendVariant(st)
    ELSE EncRaise(st, "Error: unknown format character")

\* A variant of TooManyArguments that lets left-over values pass.
TooManyArguments_Unchecked(curarg, size) == FALSE
\* The tests of lines 1521 and 1532.
TooManyArguments(curarg, size) == curarg # size
TooFewArguments(curarg, size) == curarg = size

\* The body of the while loop of message_append_args, up to its call of
\* message_append_arg; g is what get_one_full_type(signature) returned.
AppendArgsBody(st, f, g) ==
    IF g.end = NULL
    THEN EncReturn([st EXCEPT !.err = IF g.exc THEN "Error" ELSE @], FALSE)
    ELSE IF TooFewArguments(f.i, PySequence_Size(f.arg)) THEN EncRaise(st, "TypeError")
    ELSE EncCall(EncSetTop([st EXCEPT !.buf[g.end] = NUL],
                           [f EXCEPT !.end = g.end, !.store = st.buf[g.end],
                                     !.i = @ + 1, !.pc = "arg_ret"]),
                 "arg", f.sig, PySequence_Items(f.arg)[f.i + 1], f.depth)
\* The head of the loop, and the test after it.
AppendArgsHead(st, f) ==
    IF st.buf[f.sig] = NUL
    THEN IF TooManyArguments(f.i, PySequence_Size(f.arg))
         THEN EncRaise(st, "TypeError") ELSE EncReturn(st, TRUE)
    ELSE AppendArgsBody(st, f, get_one_full_type(st.buf, f.sig))
AppendArgsLoop(st) == AppendArgsHead(st, EncTop(st))
\* Lines 1525-1530: the character is put back and a closer is stepped over.
AppendArgsRet(st) ==
    LET f == EncTop(st)
        skip == f.store \in {DBUS_STRUCT_END_CHAR, DBUS_DICT_ENTRY_END_CHAR}
    IN IF ~st.ret THEN EncReturn(st, FALSE)
       ELSE EncSetTop([st EXCEPT !.buf[f.end] = f.store],
                      [f EXCEPT !.sig = IF skip THEN f.end + 1 ELSE f.end, !.pc = "entry"])

EncStep(st) ==
    LET f == EncTop(st) IN
    IF st.done THEN st
    ELSE IF f.fn = "args"
    THEN IF f.pc = "entry" THEN AppendArgsLoop(st) ELSE AppendArgsRet(st)
    ELSE IF f.pc = "entry" THEN AppendArgEntry(st)
    ELSE IF f.pc = "container_ret" THEN AppendContainerRet(st)
    ELSE IF f.pc = "variant_ret" THEN AppendVariantRet(st)
    ELSE IF f.pc = "array_loop" THEN AppendArrayLoop(st)
    ELSE AppendArrayRet(st)

\* The steps one call is given; no call of the model needs as many.
EncoderFuel == 4000

message_append_args(m, buf, signature, args, depth) ==
    LET st0 == [buf |-> buf, msg |-> m, calls |-> <<>>, ret |-> FALSE, err |-> "",
                log |-> <<>>, nid |-> 0, done |-> FALSE]
    IN Iterate(EncStep, EncCall(st0, "args", signature, args, depth), EncoderFuel)

\* message_set_args(self, (signature, Pargs)), lines 1549-1577.  The "s" of
\* PyArg_ParseTuple refuses a str with an embedded NUL.
SetArgsFailed(m, exc) == [ok |-> FALSE, err |-> exc, msg |-> m, log |-> <<>>]
\* Lines 1568-1572: e is the encoder as message_append_args leaves it.
SetArgsAppended(e) == [ok |-> e.done /\ e.ret, err |-> e.err, msg |-> e.msg, log |-> e.log]
\* Lines 1564-1568: r is what _check_signature(ptr, 0, 0) returned.
SetArgsChecked(m, Pargs, r) ==
    IF ~r.ok THEN SetArgsFailed(m, "ValueError")
    ELSE SetArgsAppended(message_append_args(m, r.buf, 1, Pargs, 0))
message_set_args(m, signature, Pargs) ==
    IF \E k \in 1..Len(signature) : signature[k] = NUL THEN SetArgsFailed(m, "ValueError")
    ELSE IF ~PySequence_Check(Pargs) THEN SetArgsFailed(m, "TypeError")
    ELSE SetArgsChecked(m, Pargs, _check_signature(CBuffer(signature), 1, 0, 0))

(***************************************************************************)
(* message_read_arg, message_read_args, message_get_args: lines 1076-1267  *)
(***************************************************************************)
\* What a call hands back when it returns NULL.
ReadFailed == [t |-> "NULL", v |-> <<>>]

\* PyDict_SetItem: a key that is a list, a dict, or a tuple holding one is
\* unhashable; a key equal to one present replaces that one's value.
RECURSIVE Hashable(_)
Hashable(o) ==
    IF o.t \in {"list", "dict"} THEN FALSE
    ELSE IF o.t = "tuple" THEN \A k \in 1..Len(o.v) : Hashable(o.v[k])
    ELSE TRUE
PyDict_SetItem(pairs, key, value) ==
    IF \E k \in 1..Len(pairs) : pairs[k][1] = key
    THEN [k \in 1..Len(pairs) |-> IF pairs[k][1] = key THEN <<key, value>> ELSE pairs[k]]
    ELSE Append(pairs, <<key, value>>)
\* The while loop of lines 1162-1175 on a dict, over the decoded entries.
RECURSIVE ReadDict(_, _)
ReadDict(entries, n) ==
    IF n = 0 THEN PyDict(<<>>)
    ELSE LET d == ReadDict(entries, n - 1)
             e == entries[n]
         IN IF d = ReadFailed \/ e = ReadFailed \/ ~Hashable(e.v[1]) THEN ReadFailed
            ELSE PyDict(PyDict_SetItem(d.v, e.v[1], e.v[2]))

RECURSIVE message_read_arg(_)
message_read_arg(item) ==
    LET type == item.t
        children == [k \in 1..Len(item.v) |-> message_read_arg(item.v[k])]
        failed == \E k \in 1..Len(item.v) : children[k] = ReadFailed
    IN IF type \in {DBUS_TYPE_BYTE, DBUS_TYPE_UINT16, DBUS_TYPE_UINT32, DBUS_TYPE_UINT64}
       THEN PyInt(FromBitsUnsigned(item.v))
       ELSE IF type \in {DBUS_TYPE_INT16, DBUS_TYPE_INT32, DBUS_TYPE_INT64}
       THEN PyInt(FromBitsSigned(item.v))
       ELSE IF type = DBUS_TYPE_BOOLEAN THEN PyBool(item.v[1] # 0)
       ELSE IF type = DBUS_TYPE_DOUBLE THEN PyFloat(item.v)
       ELSE IF type \in {DBUS_TYPE_STRING, DBUS_TYPE_OBJECT_PATH, DBUS_TYPE_SIGNATURE}
       THEN PyStr(item.v)
       ELSE IF type = DBUS_TYPE_STRUCT
       THEN IF failed THEN ReadFailed ELSE PyTuple(children)
       ELSE IF type = DBUS_TYPE_ARRAY
       THEN IF item.x[1] = DBUS_TYPE_BYTE
            THEN PyBytes([k \in 1..Len(item.v) |-> 16 * item.v[k].v[1] + item.v[k].v[2]])
            ELSE IF item.x[1] = DBUS_DICT_ENTRY_BEGIN_CHAR
            THEN ReadDict(children, Len(children))
            ELSE IF failed THEN ReadFailed ELSE PyList(children)
       ELSE IF type = DBUS_TYPE_DICT_ENTRY
       THEN IF Len(item.v) < 2 \/ children[1] = ReadFailed \/ children[2] = ReadFailed
            THEN ReadFailed
            ELSE PyTuple(<<children[1], children[2]>>)
       ELSE IF type = DBUS_TYPE_VARIANT
       THEN IF failed THEN ReadFailed ELSE PyTuple(<<PyStr(item.x), children[1]>>)
       ELSE ReadFailed

message_read_args(items) ==
    LET Plist == [k \in 1..Len(items) |-> message_read_arg(items[k])] IN
    IF \E k \in 1..Len(items) : Plist[k] = ReadFailed THEN ReadFailed ELSE PyTuple(Plist)

\* dbus_message_iter_init is false for a message without arguments.
message_get_args(m) ==
    IF m[1].items = <<>> THEN PyTuple(<<>>) ELSE message_read_args(m[1].items)

(***************************************************************************)
(* The signature strings the checks draw from                              *)
(***************************************************************************)
MaxSigLen == 4
NestSlack == 2
LongSlack == 2

SigAlphabet == {"a", "(", ")", "{", "}", "i", "Z"}

\* Every string over SigAlphabet of at most MaxSigLen characters.
ShortSigs == UNION {[1..n -> SigAlphabet] : n \in 0..MaxSigLen}

\* Nesting levels: the shallow ones and those around the limit of 32.
NestLevels == {0, 1, 2} \cup ((ArrayDepthLimit - NestSlack)..(ArrayDepthLimit + NestSlack))

\* m arrays around n brackets around an int32, and n brackets around m arrays.
ArraysOfBrackets(m, n, open, close) ==
    Rep("a", m) \o Rep(open, n) \o <<"i">> \o Rep(close, n)
BracketsOfArrays(m, n, open, close) ==
    Rep(open, n) \o Rep("a", m) \o <<"i">> \o Rep(close, n)
\* k times "a(" around an int32; n empty brackets nested.
Interleaved(k) ==
    [j \in 1..(2 * k) |-> IF j % 2 = 1 THEN "a" ELSE "("] \o <<"i">> \o Rep(")", k)
EmptyNest(n, open, close) == Rep(open, n) \o Rep(close, n)

DeepSigs ==
    {ArraysOfBrackets(m, n, "(", ")") : m \in NestLevels, n \in NestLevels}
    \cup {ArraysOfBrackets(m, n, "{", "}") : m \in NestLevels, n \in NestLevels}
    \cup {BracketsOfArrays(m, n, "(", ")") : m \in NestLevels, n \in NestLevels}
    \cup {Interleaved(k) : k \in NestLevels}
    \cup {EmptyNest(n, "(", ")") : n \in NestLevels}

\* Strings of about SignatureLengthLimit characters.
LongLengths == (SignatureLengthLimit - LongSlack)..(SignatureLengthLimit + LongSlack)
LongSigs ==
    {Rep("i", n) : n \in LongLengths}
    \cup {<<"(">> \o Rep("s", n - 2) \o <<")">> : n \in LongLengths}
    \cup {Rep("a", 3) \o Rep("y", n - 3) : n \in LongLengths}
    \cup {Rep("i", n - 1) \o <<"Z">> : n \in LongLengths}

SigInputs == ShortSigs \cup DeepSigs \cup LongSigs

\* The strings split_signature is called with: the short ones, some longer
\* signatures, and two with a NUL character in them.
SplitInputs ==
    ShortSigs
    \cup { <<"a", "{", "i", "s", "}", "i">>, <<"i", "(", "i", "(", "s", ")", ")", "a", "a", "i">>,
           <<"(", "i", "}", ")", "i">>, <<"a", "a", "(", ")", "a">>,
           <<"s", "(", "i", "i">>, <<"i", NUL, "i">>, <<NUL>> }

(***************************************************************************)
(* The strings check_bus_name and check_path are called with               *)
(***************************************************************************)
MaxNameLen == 4
NameSlack == 2
NameAlphabet == {"a", "1", ".", ":", "-", "/", "!"}
\* Every string over NameAlphabet of at most MaxNameLen characters.
ShortNames == UNION {[1..n -> NameAlphabet] : n \in 0..MaxNameLen}
\* Names and paths of about DBUS_MAXIMUM_NAME_LENGTH characters.
NameLengths == (DBUS_MAXIMUM_NAME_LENGTH - NameSlack)..(DBUS_MAXIMUM_NAME_LENGTH + NameSlack)
LongNames ==
    {<<"a", ".">> \o Rep("b", n - 2) : n \in NameLengths}
    \cup {<<":", "1", ".">> \o Rep("2", n - 3) : n \in NameLengths}
    \cup {Rep("a", n) : n \in NameLengths}
    \cup {<<"/">> \o Rep("a", n - 1) : n \in NameLengths}
    \cup {<<"/", "a", "/">> \o Rep("1", n - 3) : n \in NameLengths}
\* Some usual names, and strings with other characters.
OtherNames ==
    { <<"o", "r", "g", ".", "f", "r", "e", "e", "d", "e", "s", "k", "t", "o", "p">>,
      <<":", "1", ".", "4", "2">>, <<"f", "o", "o">>, <<"_", "a", ".", "B", "_", "9">>,
      <<"/", "o", "r", "g", "/", "_", "Z", "9">>, <<"/", "a", "_", "/", "b", "/">>,
      <<"a", ".", "b", NUL, "!">>, <<"/", "a", NUL, "/", "/">>, <<NUL>>,
      <<"a", ".", "b", " ">>, <<"/", "a", ".", "b">>, <<"/", "a", "-", "b">> }
NameInputs == ShortNames \cup LongNames \cup OtherNames

(***************************************************************************)
(* The values the header attributes of a message are set to                *)
(***************************************************************************)
MaxSets == 2
HeaderTexts ==
    { <<>>, <<"/">>, <<"/", "a">>, <<"/", "a", "/">>, <<"/", "/">>, <<"a">>, <<"_", "x", "9">>,
      <<"a", ".", "b">>, <<"a", ".", "1">>, <<"a", ".", ".", "b">>, <<"a", "-", ".", "b">>,
      <<":", "1", ".", "4", "2">>, <<":", "1">>, <<".", "a">>, <<"9", "a">>,
      <<"/", "a", NUL, "/", "/">>, <<"a", ".", "b", NUL, "!">>,
      Rep("a", DBUS_MAXIMUM_NAME_LENGTH), Rep("a", DBUS_MAXIMUM_NAME_LENGTH + 1),
      <<"a", ".">> \o Rep("b", DBUS_MAXIMUM_NAME_LENGTH - 2),
      <<"a", ".">> \o Rep("b", DBUS_MAXIMUM_NAME_LENGTH - 1),
      <<"/">> \o Rep("a", DBUS_MAXIMUM_NAME_LENGTH) }
HeaderValues ==
    {PyStr(chars) : chars \in HeaderTexts} \cup {PyNone, PyInt(Small(1)), PyBytes(<<>>)}
\* What a later assignment is made with.
LaterHeaderValues ==
    {PyStr(<<"/", "b">>), PyStr(<<"b", ".", "c">>), PyStr(<<"b">>), PyStr(<<"!">>), PyNone}
HeaderInputs(n) == IF n = 0 THEN HeaderValues ELSE LaterHeaderValues

(***************************************************************************)
(* The signatures and values set_args is called with                       *)
(***************************************************************************)
MaxArgs == 2
MaxCalls == 2

MsgSignatures ==
    { <<>>, <<"y">>, <<"b">>, <<"n">>, <<"q">>, <<"i">>, <<"u">>, <<"x">>, <<"t">>,
      <<"d">>, <<"s">>, <<"o">>, <<"g">>, <<"v">>, <<"h">>,
      <<"i", "i">>, <<"i", "s">>, <<"(", "i", ")">>, <<"(", "i", "s", ")">>,
      <<"(", ")">>, <<"(", "i", "(", "s", ")", ")">>,
      <<"a", "i">>, <<"a", "y">>, <<"a", "a", "i">>, <<"a", "{", "i", "s", "}">>,
      <<"a", "(", "i", "s", ")">>, <<"a", "v">>, <<"(", "v", ")">>,
      <<"{", "i", "s", "}">>, <<"{", "i", "s", "s", "}">>, <<"{", "i", "}">>,
      <<"a", "{", "i", "s", "s", "}">>,
      <<"Z">>, <<"(", "i">>, <<"i", NUL, "i">> }

\* The ints at and next to the ends of each range: for a width of h
\* hexadecimal digits, 2^(4h) - 1 and 2^(4h), 2^(4h-1) - 1 and 2^(4h-1),
\* -2^(4h-1) and -2^(4h-1) - 1.
HexWidths == {2, 4, 8, 16}
EdgeInts ==
    {Small(k) : k \in {-1, 0, 1, 5}}
    \cup {BigInt(FALSE, Rep(15, h)) : h \in HexWidths}
    \cup {BigInt(FALSE, <<1>> \o Rep(0, h)) : h \in HexWidths}
    \cup {BigInt(FALSE, <<7>> \o Rep(15, h - 1)) : h \in HexWidths}
    \cup {BigInt(neg, <<8>> \o Rep(0, h - 1)) : neg \in BOOLEAN, h \in HexWidths}
    \cup {BigInt(TRUE, <<8>> \o Rep(0, h - 2) \o <<1>>) : h \in HexWidths}

One == PyInt(Small(1))
Five == PyInt(Small(5))
StrX == PyStr(<<"x">>)
StrI == PyStr(<<"i">>)
Pair == PyTuple(<<One, StrX>>)

TextValues ==
    {PyStr(chars) : chars \in { <<>>, <<"x">>, <<"i">>, <<"/">>, <<"/", "a">>,
                                <<"/", "a", "/">>, <<"(", "i">>, <<"s", "x">>,
                                <<"x", NUL, "y">>, <<"/", NUL, "/", "/">> }}
TupleValues ==
    {PyTuple(items) : items \in
        { <<>>, <<One>>, <<One, StrX>>, <<One, Five>>, <<One, StrX, Five>>,
          <<StrI, Five>>, <<StrI, StrX>>, <<PyStr(<<"i", "i">>), Five>>,
          <<PyStr(<<>>), Five>>, <<PyStr(<<"Z">>), Five>>, <<Five, StrI>>,
          <<PyStr(<<"i", NUL, "Z">>), Five>>,
          <<PyStr(<<"v">>), PyTuple(<<StrI, Five>>)>>,
          <<One, PyTuple(<<StrX>>)>>,
          <<PyStr(<<"(", "i", "s", ")">>), Pair>>,
          <<PyStr(<<"a", "i">>), PyList(<<One, Five>>)>>,
          <<PyTuple(<<StrI, Five>>)>> }}
ListValues ==
    {PyList(items) : items \in
        { <<>>, <<One, Five>>, <<One, StrX>>, <<StrX>>, <<Pair>>,
          <<PyList(<<One>>), PyList(<<>>)>>, <<PyTuple(<<StrI, Five>>)>>,
          <<StrI, Five>> }}
DictValues ==
    {PyDict(pairs) : pairs \in
        { <<>>, << <<One, StrX>> >>, << <<One, StrX>>, <<Five, StrI>> >>,
          << <<StrX, One>> >> }}
OtherValues ==
    {PyBool(TRUE), PyBool(FALSE), PyFloat(Small(2)), PyNone,
     PyBytes(<<>>), PyBytes(<<1, 255>>)}

MsgValues ==
    {PyInt(n) : n \in EdgeInts} \cup TextValues \cup TupleValues \cup ListValues
    \cup DictValues \cup OtherValues

\* The values longer argument sequences are made of.
CoreValues == {One, StrX, Pair, PyList(<<One, Five>>), PyInt(BigInt(FALSE, <<1, 0, 0>>))}

\* The args of a call: a tuple of one value, of up to MaxArgs core values,
\* the same as a list, or something that is no sequence.
MsgArgs ==
    {PyTuple(<<v>>) : v \in MsgValues}
    \cup {PyTuple(items) : items \in UNION {[1..n -> CoreValues] : n \in 0..MaxArgs}}
    \cup {PyList(<<One>>), PyNone, PyDict(<<>>)}

FirstCalls == MsgSignatures \X MsgArgs
\* What a second call on the same message is made with.
FollowUpCalls ==
    { <<<<"i">>, PyTuple(<<Five>>)>>, <<<<"s">>, PyTuple(<<Five>>)>> }

\* n variants around v: ("v", ("v", ... v)).  (Built by halves, so that TLC's
\* evaluation stays shallow.)
RECURSIVE InVariants(_, _)
InVariants(v, n) ==
    IF n = 0 THEN v
    ELSE IF n = 1 THEN PyTuple(<<PyStr(<<"v">>), v>>)
    ELSE LET inner == InVariants(v, n \div 2) IN
         IF inner.t = "tuple" THEN InVariants(inner, n - (n \div 2)) ELSE inner
\* A variant value of n levels whose innermost one holds an int32.
NestedVariant(n) == InVariants(PyTuple(<<StrI, Five>>), n - 1)

\* Calls with variant values of up to MaxVariantNest levels: as the only
\* argument, in a struct, and as the only item of an array.
MaxVariantNest == 66
DeepCalls ==
    {<< <<"v">>, PyTuple(<<NestedVariant(n)>>) >> : n \in 1..MaxVariantNest}
    \cup {<< <<"(", "v", ")">>, PyTuple(<<PyTuple(<<NestedVariant(n)>>)>>) >> :
              n \in 1..MaxVariantNest}
    \cup {<< <<"a", "v">>, PyTuple(<<PyList(<<NestedVariant(n)>>)>>) >> :
              n \in 1..MaxVariantNest}

(***************************************************************************)
(* State                                                                   *)
(***************************************************************************)
VARIABLES
    pystr,      \* the buffer of the str object handed to check_signature
    sigin,      \* the characters that str object was created with
    sigres,     \* the last check_signature call on it: called, ok, exc
    strres,     \* the last call of another function of the module on it
    msg,        \* the body of the Message object, as libdbus holds it
    call,       \* the last set_args call on it, and what it did
    got,        \* what reading the args attribute last returned
    hdr,        \* the header fields of the Message object, and the last setter call
    conn,       \* a Connection object and the libdbus connection under it
    tmo,        \* a libdbus timeout and the event loop's timers for it
    wat         \* a libdbus watch and the event loop's readers and writers

sigvars == <<pystr, sigin, sigres, strres>>
msgvars == <<msg, call, got>>
objvars == <<hdr, conn, tmo, wat>>
vars == <<sigvars, msgvars, objvars>>

NotCalled == [called |-> FALSE, ok |-> FALSE, exc |-> FALSE]
\* fn: the function called; ret: the object it returned (NullObject for
\* NULL); exc: whether an exception is set.
NullObject == [t |-> "NULL", v |-> <<>>]
NoResult == [fn |-> "none", ret |-> NullObject, exc |-> FALSE]
NoCall ==
    [op |-> "none", n |-> 0, sig |-> <<>>, args |-> PyNone, ok |-> FALSE, err |-> "",
     log |-> <<>>, before |-> EmptyMessage]
NotRead == [read |-> FALSE, value |-> PyNone]

\* The six header fields a setter exists for.  A new message has none of
\* them; libdbus returns NULL for a field that is not set.
HeaderFields == {"path", "interface", "member", "error_name", "sender", "destination"}
NotSet == <<"NULL">>
NotHanded == <<"none">>
\* header: what libdbus holds for each field; field, value, ok, err: the
\* last setter call and its result; handed: the C string that call gave to
\* libdbus; before: the header before that call; n: the calls so far.
NoHeaders ==
    [header |-> [f \in HeaderFields |-> NotSet], field |-> "none", value |-> PyNone,
     ok |-> FALSE, err |-> "", handed |-> NotHanded,
     before |-> [f \in HeaderFields |-> NotSet], n |-> 0]
\* The libdbus connection under the Connection object.  alive: it is open;
\* shared: libdbus hands it out again for the same bus; data: the object in
\* slot_self (NULL, or 1 for the Connection object); filters: the user data
\* of the filters added with handler_callback, in the order libdbus calls
\* them; paths: the object-path handlers; watch, timeout: the loop given
\* with the watch and the timeout functions.
NoDBusConnection ==
    [alive |-> FALSE, shared |-> FALSE, data |-> NULL, filters |-> <<>>, paths |-> {},
     watch |-> NullObject, timeout |-> NullObject]
\* A dispatch of one message by libdbus.  active: it is going on; todo: the
\* handlers still to call; calls: the handler_callback calls made; last: the
\* last of them, with what the Python handler did and what
\* handler_callback returned; n: the dispatches so far.
NoHandlerCall ==
    [data |-> NULL, called |-> FALSE, Presult |-> NullObject, ret |-> "none", exc |-> FALSE]
NoDispatch == [active |-> FALSE, todo |-> <<>>, calls |-> 0, last |-> NoHandlerCall, n |-> 0]
\* A Connection object as connection_new leaves it (the fields of lines
\* 1607-1617; filters is the set and object_paths the dict the object
\* owns), the libdbus connection under it, the dispatch going on, and the
\* last method call: op, arg (the filter given, for add_filter and
\* remove_filter), ok, err; n counts the method calls and aborted says that
\* libdbus ended the process.
NoConnection ==
    [connection |-> NULL, shared |-> 0, skip_connect |-> 0, address |-> NullObject,
     loop |-> NullObject, filters |-> {}, object_paths |-> {},
     dbus |-> NoDBusConnection, disp |-> NoDispatch,
     op |-> "none", arg |-> PyNone, ok |-> FALSE, err |-> "", n |-> 0, aborted |-> FALSE]
\* A libdbus timeout and the event loop.  data: the Timeout object libdbus
\* holds for it (NULL, or 1); enabled: what dbus_timeout_get_enabled gives;
\* dcall: the field of the Timeout object (NULL, or the number of the timer
\* call_later returned); timers: the timers scheduled with the loop and not
\* cancelled; made: the timers made so far; op: the last callback; failed:
\* a method of the loop or of a timer has raised; n: the callbacks so far.
NoTimeout ==
    [data |-> NULL, enabled |-> FALSE, dcall |-> NULL, timers |-> {}, made |-> 0,
     op |-> "none", failed |-> FALSE, n |-> 0]
\* A libdbus watch and the event loop.  data: the Watch object libdbus
\* holds for it (NULL, or 1); enabled, flags: what dbus_watch_get_enabled
\* and dbus_watch_get_flags give; reader, writer: the fields of the Watch
\* object (NULL, or 1 for the object add_reader or add_writer returned);
\* readers, writers: whether the loop has a reader, a writer for the
\* descriptor; twice: add_reader or add_writer was called while the loop
\* had one; op, failed, n: as for a timeout.
NoWatch ==
    [data |-> NULL, enabled |-> FALSE, flags |-> 0, reader |-> NULL, writer |-> NULL,
     readers |-> FALSE, writers |-> FALSE, twice |-> FALSE,
     op |-> "none", failed |-> FALSE, n |-> 0]

(***************************************************************************)
(* check_signature (the Python-level function, lines 2840-2848)            *)
(***************************************************************************)
\* PyArg_ParseTuple "s" hands out the str object's own UTF-8 buffer, and
\* _check_signature works in that buffer.
check_signature ==
    /\ ~sigres.called
    /\ LET r == _check_signature(pystr, 1, 0, 0) IN
       /\ pystr' = r.buf
       /\ sigres' = [called |-> TRUE, ok |-> r.ok, exc |-> r.exc]
    /\ UNCHANGED <<sigin, strres, msgvars, objvars>>

InitSig ==
    /\ sigin \in SigInputs
    /\ pystr = CBuffer(sigin)
    /\ sigres = NotCalled
    /\ strres = NoResult
    /\ msg = EmptyMessage
    /\ call = NoCall
    /\ got = NotRead
    /\ hdr = NoHeaders
    /\ conn = NoConnection
    /\ tmo = NoTimeout
    /\ wat = NoWatch

NextSig ==
    \/ check_signature

SpecSig == InitSig /\ [][NextSig]_vars

(***************************************************************************)
(* split_signature (lines 2855-2883)                                       *)
(***************************************************************************)
\* PyArg_ParseTuple "s" raises for a str with a NUL character in it.
PyArg_ParseTuple_s(chars) == \A k \in 1..Len(chars) : chars[k] # NUL

\* A variant of PyUnicode_FromStringAndSize that takes one character more.
PyUnicode_FromStringAndSize_OneMore(buf, p, size) == PyStr(SubSeq(buf, p, p + size))
PyUnicode_FromStringAndSize(buf, p, size) == PyStr(SubSeq(buf, p, p + size - 1))

\* The body of the loop of lines 2866-2876, g being what get_one_full_type
\* returned for ptr.
\* A variant of SplitLoopBody that appends each piece twice.
SplitLoopBody_Twice(st, g) ==
    IF g.end = NULL
    THEN [st EXCEPT !.done = TRUE, !.Plist = NULL, !.exc = TRUE]
    ELSE [st EXCEPT !.Plist = Append(Append(@, PyUnicode_FromStringAndSize(st.buf, st.ptr,
                                                                           g.end - st.ptr)),
                                     PyUnicode_FromStringAndSize(st.buf, st.ptr,
                                                                 g.end - st.ptr)),
                    !.ptr = g.end]
SplitLoopBody(st, g) ==
    IF g.end = NULL
    THEN [st EXCEPT !.done = TRUE, !.Plist = NULL, !.exc = TRUE]
    ELSE [st EXCEPT !.Plist = Append(@, PyUnicode_FromStringAndSize(st.buf, st.ptr,
                                                                    g.end - st.ptr)),
                    !.ptr = g.end]
SplitLoopPass(st) ==
    IF st.done THEN st
    ELSE IF st.buf[st.ptr] = NUL THEN [st EXCEPT !.done = TRUE]
    ELSE SplitLoopBody(st, get_one_full_type(st.buf, st.ptr))

\* The list returned for the C string at `signature`, or NULL with an
\* exception set.
SplitSignature(buf, signature) ==
    Iterate(SplitLoopPass,
            [buf |-> buf, ptr |-> signature, Plist |-> <<>>, exc |-> FALSE, done |-> FALSE],
            Len(buf))

\* return Plist (line 2878), or return NULL (line 2882).
SplitResult(r) ==
    [fn |-> "split_signature",
     ret |-> IF r.exc THEN NullObject ELSE PyList(r.Plist),
     exc |-> r.exc]

split_signature ==
    /\ strres.fn = "none"
    /\ strres' = IF ~PyArg_ParseTuple_s(sigin)
                 THEN [fn |-> "split_signature", ret |-> NullObject, exc |-> TRUE]
                 ELSE SplitResult(SplitSignature(pystr, 1))
    /\ UNCHANGED <<pystr, sigin, sigres, msgvars, objvars>>

InitSplit ==
    /\ sigin \in SplitInputs
    /\ pystr = CBuffer(sigin)
    /\ sigres = NotCalled
    /\ strres = NoResult
    /\ msg = EmptyMessage
    /\ call = NoCall
    /\ got = NotRead
    /\ hdr = NoHeaders
    /\ conn = NoConnection
    /\ tmo = NoTimeout
    /\ wat = NoWatch

NextSplit ==
    \/ split_signature

SpecSplit == InitSplit /\ [][NextSplit]_vars

(***************************************************************************)
(* check_bus_name (lines 2770-2778) and check_path (lines 2784-2792)       *)
(***************************************************************************)
PyBool_FromLong(v) == PyBool(v)

\* What the byte in front of a str's buffer can be.
BytesBefore == {".", "x", NUL}

check_bus_name ==
    /\ strres.fn = "none"
    /\ \E before \in BytesBefore :
          strres' = IF ~PyArg_ParseTuple_s(sigin)
                    THEN [fn |-> "check_bus_name", ret |-> NullObject, exc |-> TRUE]
                    ELSE [fn |-> "check_bus_name",
                          ret |-> PyBool_FromLong(_check_bus_name(pystr, before)),
                          exc |-> FALSE]
    /\ UNCHANGED <<pystr, sigin, sigres, msgvars, objvars>>

check_path ==
    /\ strres.fn = "none"
    /\ strres' = IF ~PyArg_ParseTuple_s(sigin)
                 THEN [fn |-> "check_path", ret |-> NullObject, exc |-> TRUE]
                 ELSE [fn |-> "check_path",
                       ret |-> PyBool_FromLong(_check_path(pystr)),
                       exc |-> FALSE]
    /\ UNCHANGED <<pystr, sigin, sigres, msgvars, objvars>>

\* check_interface, lines 2798-2806.
check_interface ==
    /\ strres.fn = "none"
    /\ strres' = IF ~PyArg_ParseTuple_s(sigin)
                 THEN [fn |-> "check_interface", ret |-> NullObject, exc |-> TRUE]
                 ELSE [fn |-> "check_interface",
                       ret |-> PyBool_FromLong(_check_interface(pystr)),
                       exc |-> FALSE]
    /\ UNCHANGED <<pystr, sigin, sigres, msgvars, objvars>>

InitNames ==
    /\ sigin \in NameInputs
    /\ pystr = CBuffer(sigin)
    /\ sigres = NotCalled
    /\ strres = NoResult
    /\ msg = EmptyMessage
    /\ call = NoCall
    /\ got = NotRead
    /\ hdr = NoHeaders
    /\ conn = NoConnection
    /\ tmo = NoTimeout
    /\ wat = NoWatch

NextNames ==
    \/ check_bus_name
    \/ check_path
    \/ check_interface

SpecNames == InitNames /\ [][NextNames]_vars

(***************************************************************************)
(* Message.set_args and Message.args                                       *)
(***************************************************************************)
\* A message in which a failed call left a container open is not used
\* again: libdbus defines no result for appending to it or reading it.
set_args(signature, Pargs) ==
    /\ Len(msg) = 1
    /\ call.n < MaxCalls
    /\ LET r == message_set_args(msg, signature, Pargs) IN
       /\ msg' = r.msg
       /\ call' = [op |-> "set_args", n |-> call.n + 1, sig |-> signature,
                   args |-> Pargs, ok |-> r.ok, err |-> r.err, log |-> r.log,
                   before |-> msg]
    /\ got' = NotRead
    /\ UNCHANGED <<sigvars, objvars>>

get_args ==
    /\ Len(msg) = 1
    /\ ~got.read
    /\ got' = [read |-> TRUE, value |-> message_get_args(msg)]
    /\ UNCHANGED <<msg, call, sigvars, objvars>>

Init ==
    /\ sigin = <<>>
    /\ pystr = CBuffer(sigin)
    /\ sigres = NotCalled
    /\ strres = NoResult
    /\ msg = EmptyMessage
    /\ call = NoCall
    /\ got = NotRead
    /\ hdr = NoHeaders
    /\ conn = NoConnection
    /\ tmo = NoTimeout
    /\ wat = NoWatch

Next ==
    \/ \E c \in (IF call.n = 0 THEN FirstCalls ELSE FollowUpCalls) : set_args(c[1], c[2])
    \/ get_args

Spec == Init /\ [][Next]_vars

\* set_args alone, on a fresh message, with the deeply nested values.
NextDeep ==
    \/ call.n = 0 /\ \E c \in DeepCalls : set_args(c[1], c[2])

SpecDeep == Init /\ [][NextDeep]_vars

(***************************************************************************)
(* The header setters of Message, lines 831-1030                           *)
(***************************************************************************)
\* dbus_message_set_path and the five like it: libdbus stores a copy of the
\* C string.
dbus_message_set_header(header, field, str) == [header EXCEPT ![field] = str]

\* RETURN_TYPE_ERROR / RETURN_VALUE_ERROR; return -1.
SetHeaderFailed(h, field, value, exc) ==
    [h EXCEPT !.field = field, !.value = value, !.ok = FALSE, !.err = exc,
              !.handed = NotHanded, !.before = h.header, !.n = @ + 1]
\* The last two steps of a setter: valid is what the validator returned for
\* the C string str.
SetHeaderChecked(h, field, value, str, valid) ==
    IF ~valid THEN SetHeaderFailed(h, field, value, "ValueError")
    ELSE [h EXCEPT !.header = dbus_message_set_header(@, field, str),
                   !.field = field, !.value = value, !.ok = TRUE, !.err = "",
                   !.handed = str, !.before = h.header, !.n = @ + 1]

message_set_path(value) ==
    /\ hdr' = IF ~PyUnicode_Check(value)
              THEN SetHeaderFailed(hdr, "path", value, "TypeError")
              ELSE SetHeaderChecked(hdr, "path", value, PyUnicode_AsUTF8(value),
                                    _check_path(CBuffer(PyUnicode_AsUTF8(value))))
    /\ UNCHANGED <<sigvars, msgvars, conn, tmo, wat>>

message_set_interface(value) ==
    /\ hdr' = IF ~PyUnicode_Check(value)
              THEN SetHeaderFailed(hdr, "interface", value, "TypeError")
              ELSE SetHeaderChecked(hdr, "interface", value, PyUnicode_AsUTF8(value),
                                    _check_interface(CBuffer(PyUnicode_AsUTF8(value))))
    /\ UNCHANGED <<sigvars, msgvars, conn, tmo, wat>>

message_set_member(value) ==
    /\ hdr' = IF ~PyUnicode_Check(value)
              THEN SetHeaderFailed(hdr, "member", value, "TypeError")
              ELSE SetHeaderChecked(hdr, "member", value, PyUnicode_AsUTF8(value),
                                    _check_member(CBuffer(PyUnicode_AsUTF8(value))))
    /\ UNCHANGED <<sigvars, msgvars, conn, tmo, wat>>

message_set_error_name(value) ==
    /\ hdr' = IF ~PyUnicode_Check(value)
              THEN SetHeaderFailed(hdr, "error_name", value, "TypeError")
              ELSE SetHeaderChecked(hdr, "error_name", value, PyUnicode_AsUTF8(value),
                                    _check_interface(CBuffer(PyUnicode_AsUTF8(value))))
    /\ UNCHANGED <<sigvars, msgvars, conn, tmo, wat>>

message_set_sender(value) ==
    /\ \E before \in BytesBefore :
          hdr' = IF ~PyUnicode_Check(value)
                 THEN SetHeaderFailed(hdr, "sender", value, "TypeError")
                 ELSE SetHeaderChecked(hdr, "sender", value, PyUnicode_AsUTF8(value),
                                       _check_bus_name(CBuffer(PyUnicode_AsUTF8(value)),
                                                       before))
    /\ UNCHANGED <<sigvars, msgvars, conn, tmo, wat>>

message_set_destination(value) ==
    /\ \E before \in BytesBefore :
          hdr' = IF ~PyUnicode_Check(value)
                 THEN SetHeaderFailed(hdr, "destination", value, "TypeError")
                 ELSE SetHeaderChecked(hdr, "destination", value, PyUnicode_AsUTF8(value),
                                       _check_bus_name(CBuffer(PyUnicode_AsUTF8(value)),
                                                       before))
    /\ UNCHANGED <<sigvars, msgvars, conn, tmo, wat>>

\* Up to MaxSets assignments to the attributes of one message.
NextHdr ==
    \/ hdr.n < MaxSets /\ \E value \in HeaderInputs(hdr.n) : message_set_path(value)
    \/ hdr.n < MaxSets /\ \E value \in HeaderInputs(hdr.n) : message_set_interface(value)
    \/ hdr.n < MaxSets /\ \E value \in HeaderInputs(hdr.n) : message_set_member(value)
    \/ hdr.n < MaxSets /\ \E value \in HeaderInputs(hdr.n) : message_set_error_name(value)
    \/ hdr.n < MaxSets /\ \E value \in HeaderInputs(hdr.n) : message_set_sender(value)
    \/ hdr.n < MaxSets /\ \E value \in HeaderInputs(hdr.n) : message_set_destination(value)

SpecHdr == Init /\ [][NextHdr]_vars

(***************************************************************************)
(* Connection objects (lines 1607-2720)                                    *)
(***************************************************************************)
\* Inputs.  A callable carries its identity and what == compares: a
\* function is equal to itself only; `obj.m` gives a new bound-method
\* object each time it is evaluated, equal to the others and with the same
\* hash.
MaxConnCalls == 4
MaxDispatches == 1
FunctionF == [t |-> "function", v |-> <<1, 1>>]
MethodM == [t |-> "method", v |-> <<2, 2>>]
MethodM_Again == [t |-> "method", v |-> <<3, 2>>]
FilterInputs == {FunctionF, MethodM, MethodM_Again, PyNone}
HandlerInputs == {FunctionF, PyNone}
BusInputs == {PyInt(Small(0)), PyNone}
EventLoop ==
    [t |-> "loop",
     v |-> <<"add_reader", "remove_reader", "add_writer", "remove_writer", "call_later">>]
HalfLoop == [t |-> "loop", v |-> <<"add_reader", "remove_reader">>]
LoopInputs == {EventLoop, HalfLoop, PyNone}
PathInputs == {<<"/">>, <<"a">>, <<"/", NUL>>}
\* What a Python handler hands back: an object, or NULL with an exception
\* set.  HardToTell is an object whose truth test raises (an array of
\* several elements, say).
HardToTell == [t |-> "array", v |-> <<>>]
HandlerResults == {PyBool(TRUE), PyBool(FALSE), HardToTell, NullObject}

\* The address of an object, as libdbus keeps it for user data.
Address(o) == o.v[1]
PyCallable_Check(o) == o.t \in {"function", "method"}
PyObject_HasAttrString(o, name) == o.t = "loop" /\ \E i \in 1..Len(o.v) : o.v[i] = name
\* A set of Python objects looks its members up by hash and ==.
PySet_Contains(set, key) == \E m \in set : m.v[2] = key.v[2]
PySet_Add(set, key) == IF PySet_Contains(set, key) THEN set ELSE set \cup {key}
PySet_Discard(set, key) == {m \in set : m.v[2] # key.v[2]}
\* A variant of PySet_Clear that leaves the members in.
PySet_Clear_Keep(set) == set
PySet_Clear(set) == {}
\* The dict of object paths: entries of a path (the characters of the str
\* key) and a handler.
PathDict_Contains(dict, key) == \E e \in dict : e.path = key
PathDict_SetItem(dict, key, value) ==
    {e \in dict : e.path # key} \cup {[path |-> key, handler |-> value]}
PathDict_DelItem(dict, key) == {e \in dict : e.path # key}

\* libdbus: dbus_connection_add_filter appends to the filter list;
\* dbus_connection_remove_filter takes out the filter added last with that
\* function and that user data pointer, and warns when there is none.
dbus_connection_add_filter(filters, data) == Append(filters, data)
FilterIndex(filters, data) ==
    LET I == {i \in 1..Len(filters) : filters[i] = data} IN
    IF I = {} THEN 0 ELSE CHOOSE i \in I : \A j \in I : j <= i
dbus_connection_remove_filter(filters, data) ==
    LET i == FilterIndex(filters, data) IN
    IF i = 0 THEN filters
    ELSE SubSeq(filters, 1, i - 1) \o SubSeq(filters, i + 1, Len(filters))
\* dbus_connection_try_register_object_path and _fallback refuse a path
\* that has a handler.
PathInUse(paths, path) == \E p \in paths : p.path = path
dbus_connection_register(paths, path, data, fallback) ==
    paths \cup {[path |-> path, data |-> data, fallback |-> fallback]}
dbus_connection_unregister_object_path(paths, path) == {p \in paths : p.path # path}

\* How a method call ends: RETURN_ERROR and the like, or Py_RETURN_NONE.
ConnFailed(c, op, arg, err) ==
    [c EXCEPT !.op = op, !.arg = arg, !.ok = FALSE, !.err = err, !.n = @ + 1]
ConnDone(c, op, arg) ==
    [c EXCEPT !.op = op, !.arg = arg, !.ok = TRUE, !.err = "", !.n = @ + 1]

\* _open_connection (lines 1844-1895) on the libdbus connection d: opened
\* says whether libdbus could open and register the connection.  A shared
\* open gives the connection libdbus already has; any other a new one.
_open_connection(d, bus, shared, opened) ==
    IF ~(PyLong_Check(bus) \/ PyUnicode_Check(bus))
    THEN [connection |-> NULL, dbus |-> d,
          err |-> "Expecting a bus address or well known bus id"]
    ELSE IF ~opened THEN [connection |-> NULL, dbus |-> d, err |-> "dbus"]
    ELSE IF shared # 0 /\ d.alive /\ d.shared THEN [connection |-> 1, dbus |-> d, err |-> ""]
    ELSE [connection |-> 1,
          dbus |-> [NoDBusConnection EXCEPT !.alive = TRUE, !.shared = (shared # 0)],
          err |-> ""]

\* connection_init (lines 1656-1690).
connection_init(bus, opened) ==
    /\ conn' = IF conn.skip_connect # 0 THEN ConnDone(conn, "init", PyNone)
               ELSE LET o == _open_connection(conn.dbus, bus, 0, opened) IN
                    IF o.connection = NULL THEN ConnFailed(conn, "init", PyNone, o.err)
                    ELSE [ConnDone(conn, "init", PyNone) EXCEPT
                             !.dbus = [o.dbus EXCEPT !.data = 1],
                             !.connection = o.connection, !.shared = 0, !.address = bus]
    /\ UNCHANGED <<sigvars, msgvars, hdr, tmo, wat>>

\* connection_get (lines 1973-2025): the object in slot_self of the
\* connection, or a new one out of connection_new, connected by hand and
\* then initialised with skip_connect set.
connection_get(bus, shared, opened) ==
    /\ LET o == _open_connection(conn.dbus, bus, shared, opened) IN
       conn' = IF o.connection = NULL THEN ConnFailed(conn, "get", PyNone, o.err)
               ELSE IF o.dbus.data # NULL THEN ConnDone(conn, "get", PyNone)
               ELSE [NoConnection EXCEPT
                        !.connection = o.connection, !.shared = shared, !.address = bus,
                        !.skip_connect = 1, !.dbus = [o.dbus EXCEPT !.data = 1],
                        !.disp = conn.disp, !.op = "get", !.arg = PyNone, !.ok = TRUE,
                        !.n = conn.n + 1]
    /\ UNCHANGED <<sigvars, msgvars, hdr, tmo, wat>>

\* The loop of lines 1925-1929: every member of the filter set is taken
\* out of the filter list of libdbus.
RECURSIVE RemoveFilters(_, _)
RemoveFilters(filters, set) ==
    IF set = {} THEN filters
    ELSE LET Pitem == CHOOSE m \in set : TRUE IN
         RemoveFilters(dbus_connection_remove_filter(filters, Address(Pitem)),
                       set \ {Pitem})

\* The assertions of lines 1905-1907.
CloseAssertions(c) ==
    /\ c.loop.t = "NULL"
    /\ c.filters = {}
    /\ c.object_paths = {}

\* _close_connection (lines 1898-1962); the result is the object and the
\* value returned.  A private connection is closed and freed with its last
\* reference; a shared one stays with libdbus.
_close_connection(c) ==
    IF c.connection = NULL
    THEN [conn |-> c, ret |-> IF CloseAssertions(c) THEN 0 ELSE -1,
          err |-> IF CloseAssertions(c) THEN "" ELSE "AssertionError"]
    ELSE LET d1 == IF c.loop.t # "NULL"
                   THEN [c.dbus EXCEPT !.watch = NullObject, !.timeout = NullObject]
                   ELSE c.dbus
             d2 == [d1 EXCEPT !.filters = RemoveFilters(@, c.filters)]
             c2 == [c EXCEPT !.loop = NullObject, !.filters = PySet_Clear(@), !.dbus = d2]
         IN  IF \E e \in c.object_paths : ~PathInUse(d2.paths, e.path)
             THEN [conn |-> c2, ret |-> -1,
                   err |-> "dbus_connection_unregister_object_path() failed"]
             ELSE LET d3 == [d2 EXCEPT
                               !.paths = {p \in @ : ~PathDict_Contains(c.object_paths, p.path)},
                               !.data = NULL]
                  IN  [conn |-> [c2 EXCEPT !.object_paths = {},
                                           !.dbus = IF c.shared = 0 THEN NoDBusConnection
                                                    ELSE d3,
                                           !.connection = NULL, !.address = NullObject,
                                           !.shared = 0],
                       ret |-> 0, err |-> ""]

\* connection_close (lines 2032-2040).
connection_close ==
    /\ LET r == _close_connection(conn) IN
       conn' = IF r.ret < 0 THEN ConnFailed(r.conn, "close", PyNone, r.err)
               ELSE ConnDone(r.conn, "close", PyNone)
    /\ UNCHANGED <<sigvars, msgvars, hdr, tmo, wat>>

\* connection_set_loop (lines 2486-2523).  installed: which of the two
\* libdbus calls went through ("none", "watch", "both"); they fail when an
\* add callback fails for a watch or timeout the connection already has.
connection_set_loop(loop, installed) ==
    /\ conn' =
         IF conn.connection = NULL THEN ConnFailed(conn, "set_loop", PyNone, "not connected")
         ELSE IF conn.loop.t # "NULL"
         THEN ConnFailed(conn, "set_loop", PyNone, "an event loop is already installed")
         ELSE IF ~(/\ PyObject_HasAttrString(loop, "add_reader")
                   /\ PyObject_HasAttrString(loop, "remove_reader")
                   /\ PyObject_HasAttrString(loop, "add_writer")
                   /\ PyObject_HasAttrString(loop, "remove_writer")
                   /\ PyObject_HasAttrString(loop, "call_later"))
         THEN ConnFailed(conn, "set_loop", PyNone, "expecting an looping.EventLoop like object")
         ELSE IF installed = "none"
         THEN [ConnFailed(conn, "set_loop", PyNone,
                          "dbus_connection_set_watch_functions() failed")
                  EXCEPT !.loop = loop]
         ELSE IF installed = "watch"
         THEN [ConnFailed(conn, "set_loop", PyNone,
                          "dbus_connection_set_watch_functions() failed")
                  EXCEPT !.loop = loop, !.dbus.watch = loop]
         ELSE [ConnDone(conn, "set_loop", PyNone)
                  EXCEPT !.loop = loop, !.dbus.watch = loop, !.dbus.timeout = loop]
    /\ UNCHANGED <<sigvars, msgvars, hdr, tmo, wat>>

\* connection_add_filter (lines 2537-2564).
connection_add_filter(filter) ==
    /\ conn' =
         IF ~PyCallable_Check(filter)
         THEN ConnFailed(conn, "add_filter", filter, "expecting a Python callable")
         ELSE IF conn.connection = NULL
         THEN ConnFailed(conn, "add_filter", filter, "not connected")
         ELSE IF PySet_Contains(conn.filters, filter) THEN ConnDone(conn, "add_filter", filter)
         ELSE [ConnDone(conn, "add_filter", filter)
                  EXCEPT !.dbus.filters = dbus_connection_add_filter(@, Address(filter)),
                         !.filters = PySet_Add(@, filter)]
    /\ UNCHANGED <<sigvars, msgvars, hdr, tmo, wat>>

\* connection_remove_filter (lines 2572-2597).  libdbus warns when it is
\* asked to remove a filter it does not have; fatal says whether its
\* warnings end the process (they do unless DBUS_FATAL_WARNINGS is 0).
connection_remove_filter(filter, fatal) ==
    /\ conn' =
         IF ~PyCallable_Check(filter)
         THEN ConnFailed(conn, "remove_filter", filter, "expecting a Python callable")
         ELSE IF conn.connection = NULL
         THEN ConnFailed(conn, "remove_filter", filter, "not connected")
         ELSE IF ~PySet_Contains(conn.filters, filter)
         THEN ConnFailed(conn, "remove_filter", filter, "no such filter")
         ELSE IF FilterIndex(conn.dbus.filters, Address(filter)) = 0 /\ fatal
         THEN [ConnFailed(conn, "remove_filter", filter, "abort") EXCEPT !.aborted = TRUE]
         ELSE [ConnDone(conn, "remove_filter", filter)
                  EXCEPT !.dbus.filters = dbus_connection_remove_filter(@, Address(filter)),
                         !.filters = PySet_Discard(@, filter)]
    /\ UNCHANGED <<sigvars, msgvars, hdr, tmo, wat>>

\* connection_register_object_path (lines 2621-2667); path holds the
\* characters of the str given.
connection_register_object_path(path, handler, fallback) ==
    /\ conn' =
         IF ~PyArg_ParseTuple_s(path)
         THEN ConnFailed(conn, "register_object_path", PyNone, "TypeError")
         ELSE IF ~_check_path(CBuffer(path))
         THEN ConnFailed(conn, "register_object_path", PyNone, "invalid path")
         ELSE IF ~PyCallable_Check(handler)
         THEN ConnFailed(conn, "register_object_path", PyNone,
                         "expecting a Python callable")
         ELSE IF conn.connection = NULL
         THEN ConnFailed(conn, "register_object_path", PyNone, "not connected")
         ELSE IF PathInUse(conn.dbus.paths, path)
         THEN ConnFailed(conn, "register_object_path", PyNone, "dbus")
         ELSE [ConnDone(conn, "register_object_path", PyNone)
                  EXCEPT !.dbus.paths = dbus_connection_register(@, path, Address(handler),
                                                                 fallback # 0),
                         !.object_paths = PathDict_SetItem(@, path, handler)]
    /\ UNCHANGED <<sigvars, msgvars, hdr, tmo, wat>>

\* connection_unregister_object_path (lines 2676-2707).
connection_unregister_object_path(path) ==
    /\ conn' =
         IF ~PyArg_ParseTuple_s(path)
         THEN ConnFailed(conn, "unregister_object_path", PyNone, "TypeError")
         ELSE IF ~_check_path(CBuffer(path))
         THEN ConnFailed(conn, "unregister_object_path", PyNone, "invalid path")
         ELSE IF conn.connection = NULL
         THEN ConnFailed(conn, "unregister_object_path", PyNone, "not connected")
         ELSE IF ~PathDict_Contains(conn.object_paths, path)
         THEN ConnFailed(conn, "unregister_object_path", PyNone, "no such object path")
         ELSE IF ~PathInUse(conn.dbus.paths, path)
         THEN ConnFailed(conn, "unregister_object_path", PyNone,
                         "dbus_connection_unregister_object_path() failed")
         ELSE [ConnDone(conn, "unregister_object_path", PyNone)
                  EXCEPT !.dbus.paths = dbus_connection_unregister_object_path(@, path),
                         !.object_paths = PathDict_DelItem(@, path)]
    /\ UNCHANGED <<sigvars, msgvars, hdr, tmo, wat>>

\* PyObject_IsTrue on what a handler returned: 1, 0, or -1 with an
\* exception set.
IsTrue(Presult) ==
    CASE Presult.t = "bool" -> IF Presult.v THEN 1 ELSE 0
      [] Presult.t = "none" -> 0
      [] OTHER -> -1

\* handler_callback (lines 1813-1842) for the user data `data` on the
\* libdbus connection d, Presult being what the Python handler hands back
\* if it is called.  called: the handler was called; ret: the value
\* returned to libdbus; exc: an exception is left set.
HandlerCallback(d, data, Presult) ==
    IF d.data = NULL
    THEN [data |-> data, called |-> FALSE, Presult |-> NullObject,
          ret |-> "NOT_YET_HANDLED", exc |-> FALSE]
    ELSE IF Presult.t = "NULL"
    THEN [data |-> data, called |-> TRUE, Presult |-> Presult,
          ret |-> "NOT_YET_HANDLED", exc |-> FALSE]
    ELSE [data |-> data, called |-> TRUE, Presult |-> Presult,
          ret |-> IF IsTrue(Presult) # 0 THEN "HANDLED" ELSE "NOT_YET_HANDLED",
          exc |-> IsTrue(Presult) < 0]

\* libdbus starts to dispatch a message for the object at `path`: the
\* filters in the order they were added, then the handler of the path.
dbus_connection_dispatch(path) ==
    /\ conn.dbus.alive
    /\ conn.disp.todo = <<>>
    /\ conn' = [conn EXCEPT
                  !.disp.active = (conn.dbus.filters # <<>>
                                   \/ PathInUse(conn.dbus.paths, path)),
                  !.disp.calls = 0,
                  !.disp.last = NoHandlerCall,
                  !.disp.n = @ + 1,
                  !.disp.todo =
                      [i \in 1..Len(conn.dbus.filters) |->
                          [kind |-> "filter", path |-> <<>>,
                           data |-> conn.dbus.filters[i]]]
                      \o (IF PathInUse(conn.dbus.paths, path)
                          THEN <<[kind |-> "path", path |-> path,
                                  data |-> (CHOOSE p \in conn.dbus.paths :
                                               p.path = path).data]>>
                          ELSE <<>>)]
    /\ UNCHANGED <<sigvars, msgvars, hdr, tmo, wat>>

\* The next handler of the dispatch: libdbus leaves out a filter that was
\* removed and a path that was unregistered meanwhile, calls
\* handler_callback for any other, and stops at the first that reports the
\* message as handled.
handler_callback(Presult) ==
    /\ conn.disp.todo # <<>>
    /\ LET h == Head(conn.disp.todo)
           removed == IF h.kind = "filter"
                      THEN FilterIndex(conn.dbus.filters, h.data) = 0
                      ELSE ~PathInUse(conn.dbus.paths, h.path)
           r == HandlerCallback(conn.dbus, h.data, Presult)
       IN  conn' = IF removed THEN [conn EXCEPT !.disp.todo = Tail(@),
                                                !.disp.active = (Tail(conn.disp.todo) # <<>>)]
                   ELSE IF r.ret = "HANDLED"
                   THEN [conn EXCEPT !.disp.todo = <<>>, !.disp.active = FALSE,
                                     !.disp.calls = @ + 1, !.disp.last = r]
                   ELSE [conn EXCEPT !.disp.todo = Tail(@),
                                     !.disp.active = (Tail(conn.disp.todo) # <<>>),
                                     !.disp.calls = @ + 1, !.disp.last = r]
    /\ UNCHANGED <<sigvars, msgvars, hdr, tmo, wat>>

\* Up to MaxConnCalls method calls on one Connection object and up to
\* MaxDispatches messages.  The constructor runs on an object that is not
\* connected; get gives the object of the model when there is none
\* connected or when it is the shared one of that bus.  Nothing runs after
\* libdbus has ended the process.
ConnCall == ~conn.aborted /\ conn.n < MaxConnCalls
NextConn ==
    \/ ConnCall /\ conn.connection = NULL
                /\ \E bus \in BusInputs, opened \in BOOLEAN : connection_init(bus, opened)
    \/ ConnCall /\ \E bus \in BusInputs, shared \in {0, 1}, opened \in BOOLEAN :
                      /\ \/ conn.connection = NULL
                         \/ shared # 0 /\ conn.shared # 0 /\ conn.address.t = bus.t
                      /\ connection_get(bus, shared, opened)
    \/ ConnCall /\ connection_close
    \/ ConnCall /\ \E loop \in LoopInputs, installed \in {"none", "watch", "both"} :
                      connection_set_loop(loop, installed)
    \/ ConnCall /\ \E filter \in FilterInputs : connection_add_filter(filter)
    \/ ConnCall /\ \E filter \in FilterInputs, fatal \in BOOLEAN :
                      connection_remove_filter(filter, fatal)
    \/ ConnCall /\ \E path \in PathInputs, handler \in HandlerInputs, fallback \in {0, 1} :
                      connection_register_object_path(path, handler, fallback)
    \/ ConnCall /\ \E path \in PathInputs : connection_unregister_object_path(path)
    \/ ~conn.aborted /\ conn.disp.n < MaxDispatches
                     /\ \E path \in PathInputs : dbus_connection_dispatch(path)
    \/ ~conn.aborted /\ \E Presult \in HandlerResults : handler_callback(Presult)

SpecConn == Init /\ [][NextConn]_vars

(***************************************************************************)
(* Event loop integration: timeouts (lines 2388-2484) and watches (lines   *)
(* 2246-2386)                                                              *)
(***************************************************************************)
MaxLoopCalls == 4

\* PyObject_CallMethod(o, ...): NULL with an exception set when o is NULL
\* or when the method raises (raised), the result otherwise.
PyObject_CallMethod(o, raised) == o # NULL /\ ~raised

\* The part of lines 2406-2418 and 2465-2477 that schedules a timer when
\* the timeout is enabled: call_later makes timer number made + 1.
ScheduleIfEnabled(t, raised) ==
    IF ~t.enabled THEN t
    ELSE IF ~PyObject_CallMethod(1, raised) THEN [t EXCEPT !.failed = TRUE]
    ELSE [t EXCEPT !.dcall = t.made + 1, !.timers = @ \cup {t.made + 1},
                   !.made = @ + 1]

\* add_timeout_callback (lines 2388-2425) for a timeout that libdbus has
\* in the state `enabled`.
add_timeout_callback(enabled, raised) ==
    /\ tmo' = IF tmo.data # NULL THEN [tmo EXCEPT !.op = "add", !.n = @ + 1]
              ELSE ScheduleIfEnabled([tmo EXCEPT !.data = 1, !.dcall = NULL,
                                                 !.enabled = enabled,
                                                 !.op = "add", !.n = @ + 1],
                                     raised)
    /\ UNCHANGED <<sigvars, msgvars, hdr, conn, wat>>

\* remove_timeout_callback (lines 2427-2442): the timer is cancelled and
\* libdbus lets go of the Timeout object.
remove_timeout_callback(raised) ==
    /\ tmo' = IF tmo.data = NULL THEN [tmo EXCEPT !.op = "remove", !.n = @ + 1]
              ELSE [tmo EXCEPT !.timers = IF PyObject_CallMethod(tmo.dcall, raised)
                                          THEN @ \ {tmo.dcall} ELSE @,
                               !.failed = @ \/ (tmo.dcall # NULL /\ raised),
                               !.data = NULL, !.dcall = NULL,
                               !.op = "remove", !.n = @ + 1]
    /\ UNCHANGED <<sigvars, msgvars, hdr, conn, wat>>

\* timeout_toggled_callback (lines 2444-2484), called by libdbus after it
\* has changed the enabled state of the timeout.
timeout_toggled_callback(cancel_raised, raised) ==
    /\ tmo' =
         LET t == [tmo EXCEPT !.enabled = ~@, !.op = "toggled", !.n = @ + 1] IN
         IF tmo.data = NULL THEN [tmo EXCEPT !.op = "toggled", !.n = @ + 1]
         ELSE IF ~PyObject_CallMethod(tmo.dcall, cancel_raised)
         THEN [t EXCEPT !.failed = @ \/ (tmo.dcall # NULL /\ cancel_raised)]
         ELSE ScheduleIfEnabled([t EXCEPT !.timers = @ \ {tmo.dcall}, !.dcall = NULL],
                                raised)
    /\ UNCHANGED <<sigvars, msgvars, hdr, conn, wat>>

DBUS_WATCH_READABLE == 1
DBUS_WATCH_WRITABLE == 2
\* flags & flag, for a flag that is one bit.
HasFlag(flags, flag) == (flags \div flag) % 2 = 1

\* The conditions of lines 2271 and 2278, 2347 and 2363.
\* A variant of WantsReader that leaves the enabled state out.
WantsReader_Always(w) == HasFlag(w.flags, DBUS_WATCH_READABLE)
WantsReader(w) == w.enabled /\ HasFlag(w.flags, DBUS_WATCH_READABLE)
WantsWriter(w) == w.enabled /\ HasFlag(w.flags, DBUS_WATCH_WRITABLE)

\* loop.add_reader and loop.add_writer, called when the field of the Watch
\* object is NULL or unconditionally; after a failure the callback goes to
\* its error exit (done).
AddReader(w, raised) ==
    IF w.done THEN w
    ELSE IF raised THEN [w EXCEPT !.failed = TRUE, !.done = TRUE]
    ELSE [w EXCEPT !.reader = 1, !.readers = TRUE, !.twice = @ \/ w.readers]
AddWriter(w, raised) ==
    IF w.done THEN w
    ELSE IF raised THEN [w EXCEPT !.failed = TRUE, !.done = TRUE]
    ELSE [w EXCEPT !.writer = 1, !.writers = TRUE, !.twice = @ \/ w.writers]
\* loop.remove_reader and loop.remove_writer in watch_toggled_callback: the
\* field is cleared only when the call returned.
RemoveReader(w, raised) ==
    IF w.done THEN w
    ELSE IF raised THEN [w EXCEPT !.failed = TRUE, !.done = TRUE]
    ELSE [w EXCEPT !.reader = NULL, !.readers = FALSE]
RemoveWriter(w, raised) ==
    IF w.done THEN w
    ELSE IF raised THEN [w EXCEPT !.failed = TRUE, !.done = TRUE]
    ELSE [w EXCEPT !.writer = NULL, !.writers = FALSE]

\* What a callback leaves in the state: the fields of NoWatch.
WatchState(w, op) ==
    [data |-> w.data, enabled |-> w.enabled, flags |-> w.flags, reader |-> w.reader,
     writer |-> w.writer, readers |-> w.readers, writers |-> w.writers,
     twice |-> w.twice, op |-> op, failed |-> w.failed, n |-> w.n + 1]
Started(w) ==
    [data |-> w.data, enabled |-> w.enabled, flags |-> w.flags, reader |-> w.reader,
     writer |-> w.writer, readers |-> w.readers, writers |-> w.writers,
     twice |-> w.twice, failed |-> w.failed, n |-> w.n, done |-> FALSE]

\* Lines 2271-2284 of add_watch_callback.
AddWatchReader(w, raised) == IF WantsReader(w) THEN AddReader(w, raised) ELSE w
AddWatchWriter(w, raised) == IF WantsWriter(w) THEN AddWriter(w, raised) ELSE w
\* add_watch_callback (lines 2246-2293) for a watch that libdbus has with
\* these flags and in the state `enabled`; r_raised and w_raised say
\* whether add_reader and add_writer raise if called.
add_watch_callback(flags, enabled, r_raised, w_raised) ==
    /\ wat' = IF wat.data # NULL THEN WatchState(Started(wat), "add")
              ELSE WatchState(
                     AddWatchWriter(
                       AddWatchReader([Started(wat) EXCEPT !.data = 1, !.flags = flags,
                                                           !.enabled = enabled,
                                                           !.reader = NULL,
                                                           !.writer = NULL],
                                      r_raised),
                       w_raised),
                     "add")
    /\ UNCHANGED <<sigvars, msgvars, hdr, conn, tmo>>

\* Lines 2309-2318 of remove_watch_callback: the field is cleared whether
\* or not the call returned.
DropReader(w, raised) ==
    IF w.reader = NULL THEN w
    ELSE [w EXCEPT !.reader = NULL, !.readers = @ /\ raised, !.failed = @ \/ raised]
DropWriter(w, raised) ==
    IF w.writer = NULL THEN w
    ELSE [w EXCEPT !.writer = NULL, !.writers = @ /\ raised, !.failed = @ \/ raised]
\* remove_watch_callback (lines 2295-2325).
remove_watch_callback(r_raised, w_raised) ==
    /\ wat' = IF wat.data = NULL THEN WatchState(Started(wat), "remove")
              ELSE WatchState([DropWriter(DropReader(Started(wat), r_raised), w_raised)
                                  EXCEPT !.data = NULL],
                              "remove")
    /\ UNCHANGED <<sigvars, msgvars, hdr, conn, tmo>>

\* Lines 2347-2362 and 2363-2378 of watch_toggled_callback.
ToggleReader(w, raised) ==
    IF WantsReader(w)
    THEN (IF w.reader = NULL THEN AddReader(w, raised) ELSE w)
    ELSE (IF w.reader # NULL THEN RemoveReader(w, raised) ELSE w)
ToggleWriter(w, raised) ==
    IF WantsWriter(w)
    THEN (IF w.writer = NULL THEN AddWriter(w, raised) ELSE w)
    ELSE (IF w.writer # NULL THEN RemoveWriter(w, raised) ELSE w)
\* watch_toggled_callback (lines 2327-2386), called by libdbus after it has
\* changed the enabled state of the watch.
watch_toggled_callback(r_raised, w_raised) ==
    /\ wat' = IF wat.data = NULL THEN WatchState(Started(wat), "toggled")
              ELSE WatchState(
                     ToggleWriter(ToggleReader([Started(wat) EXCEPT !.enabled = ~@],
                                               r_raised),
                                  w_raised),
                     "toggled")
    /\ UNCHANGED <<sigvars, msgvars, hdr, conn, tmo>>

\* Up to MaxLoopCalls callbacks for one timeout and as many for one watch.
\* libdbus adds a timeout or watch it has not added, and toggles and
\* removes one it has added.
NextLoop ==
    \/ tmo.n < MaxLoopCalls /\ tmo.data = NULL
          /\ \E enabled \in BOOLEAN, raised \in BOOLEAN : add_timeout_callback(enabled, raised)
    \/ tmo.n < MaxLoopCalls /\ tmo.data # NULL
          /\ \E raised \in BOOLEAN : remove_timeout_callback(raised)
    \/ tmo.n < MaxLoopCalls /\ tmo.data # NULL
          /\ \E cancel_raised \in BOOLEAN, raised \in BOOLEAN :
                timeout_toggled_callback(cancel_raised, raised)
    \/ wat.n < MaxLoopCalls /\ wat.data = NULL
          /\ \E flags \in 1..3, enabled \in BOOLEAN, r_raised \in BOOLEAN,
                w_raised \in BOOLEAN :
                add_watch_callback(flags, enabled, r_raised, w_raised)
    \/ wat.n < MaxLoopCalls /\ wat.data # NULL
          /\ \E r_raised \in BOOLEAN, w_raised \in BOOLEAN :
                remove_watch_callback(r_raised, w_raised)
    \/ wat.n < MaxLoopCalls /\ wat.data # NULL
          /\ \E r_raised \in BOOLEAN, w_raised \in BOOLEAN :
                watch_toggled_callback(r_raised, w_raised)

SpecLoop == Init /\ [][NextLoop]_vars

(***************************************************************************)
(* The signature grammar, stated on its own (D-Bus specification): a full  *)
(* type is a basic code, "a" and a full type, or a bracket group closed by *)
(* its own closer.  Used to state the claims, not by the model.            *)
(***************************************************************************)
\* One left-to-right pass with a stack of the open brackets.  `pend` says
\* that an "a" still waits for its element type; `base` counts the arrays
\* around the innermost open bracket and `run` the arrays opened since;
\* maxarr and maxbr are the deepest array and bracket nesting seen.
Closer(c) == IF c = "(" THEN ")" ELSE "}"
Larger(x, y) == IF x >= y THEN x ELSE y

GrammarStep(s, st) ==
    IF st.done THEN st
    ELSE IF st.i > Len(s)
    THEN [st EXCEPT !.done = TRUE, !.ok = (st.open = <<>> /\ ~st.pend)]
    ELSE
    LET c == s[st.i]
        n == Len(st.open)
    IN
    IF c \in BasicTypeCodes
    THEN [st EXCEPT !.i = @ + 1, !.pend = FALSE, !.run = 0]
    ELSE IF c = "a"
    THEN [st EXCEPT !.i = @ + 1, !.pend = TRUE, !.run = @ + 1,
                    !.maxarr = Larger(@, st.base + st.run + 1)]
    ELSE IF c \in {"(", "{"}
    THEN [st EXCEPT !.i = @ + 1, !.pend = FALSE, !.run = 0,
                    !.open = Append(@, [closer |-> Closer(c), base |-> st.base]),
                    !.base = st.base + st.run,
                    !.maxbr = Larger(@, n + 1)]
    ELSE IF c \in {")", "}"} /\ n > 0 /\ ~st.pend /\ st.open[n].closer = c
    THEN [st EXCEPT !.i = @ + 1, !.run = 0,
                    !.open = SubSeq(@, 1, n - 1),
                    !.base = st.open[n].base]
    ELSE [st EXCEPT !.done = TRUE, !.ok = FALSE]

Grammar(s) ==
    Iterate(LAMBDA st : GrammarStep(s, st),
            [i |-> 1, open |-> <<>>, pend |-> FALSE, base |-> 0, run |-> 0,
             maxarr |-> 0, maxbr |-> 0, ok |-> FALSE, done |-> FALSE],
            Len(s) + 1)

WellFormed(s) == Grammar(s).ok
\* The deepest nesting of arrays, and of brackets, in a well-formed s.
MaxArrayNest(s) == Grammar(s).maxarr
MaxBracketNest(s) == Grammar(s).maxbr

(***************************************************************************)
(* Claims about check_signature (checked under SpecSig)                    *)
(***************************************************************************)
\* C3: check_signature leaves every character of its input string as it
\* was, whether it returns true or false.
C3_InputLeftAsItWas ==
    sigres.called => pystr = CBuffer(sigin)

\* C5: a well-formed signature of at most 255 characters is accepted if and
\* only if it nests at most 32 arrays and at most 32 brackets, the two
\* counted separately.
C5_DepthLimits ==
    (sigres.called /\ WellFormed(sigin) /\ Len(sigin) <= 255)
        => (sigres.ok <=> (MaxArrayNest(sigin) <= 32 /\ MaxBracketNest(sigin) <= 32))

\* C5 witness: a signature with 32 arrays and 32 brackets at once was
\* accepted.
C5_Witness ==
    /\ sigres.called
    /\ sigres.ok
    /\ MaxArrayNest(sigin) = 32
    /\ MaxBracketNest(sigin) = 32

\* C6: check_signature returns true only for a concatenation of full types
\* of the grammar; an unclosed bracket, a closer with no opener, a bracket
\* closed by the other closer, an unknown character and a trailing "a" are
\* all rejected.
C6_AcceptsOnlyGrammar ==
    sigres.called =>
        /\ sigres.ok => WellFormed(sigin)
        /\ sigin \in {<<"(", "i">>, <<"i", ")">>, <<"(", "i", "}">>,
                      <<"{", "i", ")">>, <<"Z">>, <<"i", "a">>} => ~sigres.ok

\* C6 witness: a bracket closed by the other kind of closer was rejected.
C6_Witness ==
    /\ sigres.called
    /\ ~sigres.ok
    /\ sigin = <<"(", "i", "}">>

\* C7: every signature of more than 255 characters is rejected, and one of
\* exactly 255 characters that is otherwise valid is accepted.
C7_LengthLimit ==
    sigres.called =>
        /\ Len(sigin) > 255 => ~sigres.ok
        /\ (/\ Len(sigin) = 255
            /\ WellFormed(sigin)
            /\ MaxArrayNest(sigin) <= 32
            /\ MaxBracketNest(sigin) <= 32) => sigres.ok

\* C7 witness: a signature of exactly 255 characters was accepted.
C7_Witness ==
    /\ sigres.called
    /\ sigres.ok
    /\ Len(sigin) = 255

(***************************************************************************)
(* Signatures and values, stated on their own for the claims about         *)
(* set_args (checked under Spec).  Used to state the claims, not by the    *)
(* model.                                                                  *)
(***************************************************************************)
\* What the specification takes for a valid signature.
ValidSignature(s) ==
    /\ WellFormed(s)
    /\ Len(s) <= 255
    /\ MaxArrayNest(s) <= 32
    /\ MaxBracketNest(s) <= 32

\* The brackets open before position i of s.
LevelBefore(s, i) ==
    Cardinality({j \in 1..(i - 1) : s[j] \in {"(", "{"}})
    - Cardinality({j \in 1..(i - 1) : s[j] \in {")", "}"}})
\* The positions of s at which a full type that is in no bracket ends.
TypeEnds(s) ==
    {i \in 1..Len(s) :
        \/ s[i] \notin {"a", "(", "{", ")", "}"} /\ LevelBefore(s, i) = 0
        \/ s[i] \in {")", "}"} /\ LevelBefore(s, i) = 1}
CountFullTypes(s) == Cardinality(TypeEnds(s))
\* The k-th full type of s.
FullType(s, k) ==
    LET last == CHOOSE i \in TypeEnds(s) : Cardinality({j \in TypeEnds(s) : j <= i}) = k
        first == IF k = 1 THEN 1
                 ELSE 1 + CHOOSE i \in TypeEnds(s) :
                              Cardinality({j \in TypeEnds(s) : j <= i}) = k - 1
    IN SubSeq(s, first, last)

\* 2^k, one less and one more, and the order of ints, by arithmetic on the
\* digits.
\* 2^k = 2^(k mod 4) * 16^(k div 4).
TwoTo(k) == <<2 ^ (k % 4)>> \o Rep(0, k \div 4)
RECURSIVE MagMinusOne(_)
MagMinusOne(m) ==
    IF m[Len(m)] > 0 THEN [m EXCEPT ![Len(m)] = @ - 1]
    ELSE Append(MagMinusOne(SubSeq(m, 1, Len(m) - 1)), 15)
RECURSIVE MagPlusOne(_)
MagPlusOne(m) ==
    IF m = <<>> THEN <<1>>
    ELSE IF m[Len(m)] < 15 THEN [m EXCEPT ![Len(m)] = @ + 1]
    ELSE Append(MagPlusOne(SubSeq(m, 1, Len(m) - 1)), 0)
IntPlusOne(n) ==
    IF n.neg THEN BigInt(TRUE, MagMinusOne(n.mag)) ELSE BigInt(FALSE, MagPlusOne(n.mag))
IntMinusOne(n) ==
    IF n.neg \/ n.mag = <<>> THEN BigInt(TRUE, MagPlusOne(n.mag))
    ELSE BigInt(FALSE, MagMinusOne(n.mag))
IntLessEq(a, b) ==
    IF a.neg # b.neg THEN a.neg
    ELSE IF Len(a.mag) # Len(b.mag) THEN (Len(a.mag) < Len(b.mag)) # a.neg
    ELSE \/ a.mag = b.mag
         \/ \E k \in 1..Len(a.mag) :
               /\ \A j \in 1..(k - 1) : a.mag[j] = b.mag[j]
               /\ IF a.neg THEN a.mag[k] > b.mag[k] ELSE a.mag[k] < b.mag[k]

\* The range of each integer type code: 0..2^w-1, or -2^(w-1)..2^(w-1)-1.
RangeBits(c) ==
    IF c = "y" THEN 8
    ELSE IF c \in {"n", "q"} THEN 16
    ELSE IF c \in {"i", "u"} THEN 32
    ELSE 64
RangeMin(c) ==
    IF c \in {"y", "q", "u", "t"} THEN BigInt(FALSE, <<>>)
    ELSE BigInt(TRUE, TwoTo(RangeBits(c) - 1))
RangeMax(c) ==
    IF c \in {"y", "q", "u", "t"} THEN IntMinusOne(BigInt(FALSE, TwoTo(RangeBits(c))))
    ELSE IntMinusOne(BigInt(FALSE, TwoTo(RangeBits(c) - 1)))
\* An integer value and the int it stands for (a bool is an int in Python).
IsInteger(v) == v.t \in {"int", "bool"}
IntegerOf(v) ==
    IF v.t = "int" THEN v.v
    ELSE IF v.v THEN BigInt(FALSE, <<1>>) ELSE BigInt(FALSE, <<>>)
InRange(c, v) ==
    IsInteger(v) /\ IntLessEq(RangeMin(c), IntegerOf(v)) /\ IntLessEq(IntegerOf(v), RangeMax(c))

\* A value has the shape of the full type s.  A str stands for a string
\* when it holds no NUL, for an object path when it is "/" or "/a", for a
\* signature when it is a valid one; no value stands for a unix fd.
RECURSIVE Matches(_, _)
Matches(s, v) ==
    LET c == s[1]
        inner == SubSeq(s, 2, Len(s) - 1)
        elt == SubSeq(s, 2, Len(s))
    IN IF c \in {"y", "n", "q", "i", "u", "x", "t"} THEN v.t = "int" /\ InRange(c, v)
       ELSE IF c = "b" THEN v.t = "bool"
       ELSE IF c = "d" THEN v.t = "float"
       ELSE IF c = "s" THEN v.t = "str" /\ \A k \in 1..Len(v.v) : v.v[k] # NUL
       ELSE IF c = "o" THEN v.t = "str" /\ v.v \in {<<"/">>, <<"/", "a">>}
       ELSE IF c = "g" THEN v.t = "str" /\ ValidSignature(v.v)
       ELSE IF c \in {"(", "{"}
       THEN /\ v.t = "tuple"
            /\ Len(v.v) = CountFullTypes(inner)
            /\ \A k \in 1..Len(v.v) : Matches(FullType(inner, k), v.v[k])
       ELSE IF c = "a"
       THEN IF elt = <<"y">> THEN v.t = "bytes"
            ELSE IF elt[1] = "{"
            THEN v.t = "dict" /\ \A k \in 1..Len(v.v) : Matches(elt, PyTuple(v.v[k]))
            ELSE v.t = "list" /\ \A k \in 1..Len(v.v) : Matches(elt, v.v[k])
       ELSE IF c = "v"
       THEN /\ v.t = "tuple"
            /\ Len(v.v) = 2
            /\ v.v[1].t = "str"
            /\ ValidSignature(v.v[1].v)
            /\ CountFullTypes(v.v[1].v) = 1
            /\ Matches(v.v[1].v, v.v[2])
       ELSE FALSE

\* A sequence of values has the shape of the signature s.
ArgsMatch(s, args) ==
    /\ args.t \in {"tuple", "list"}
    /\ Len(args.v) = CountFullTypes(s)
    /\ \A k \in 1..Len(args.v) : Matches(FullType(s, k), args.v[k])

\* Equality of values, a dict compared without regard to the order of its
\* keys.
RECURSIVE PyEquals(_, _)
PyEquals(a, b) ==
    IF a.t # b.t THEN FALSE
    ELSE IF a.t \in {"tuple", "list"}
    THEN Len(a.v) = Len(b.v) /\ \A k \in 1..Len(a.v) : PyEquals(a.v[k], b.v[k])
    ELSE IF a.t = "dict"
    THEN /\ Len(a.v) = Len(b.v)
         /\ \A i \in 1..Len(a.v) : \E j \in 1..Len(b.v) :
               PyEquals(a.v[i][1], b.v[j][1]) /\ PyEquals(a.v[i][2], b.v[j][2])
    ELSE a = b

(***************************************************************************)
(* Claims about set_args and args (checked under Spec)                     *)
(***************************************************************************)
\* C1: for a signature check_signature accepts and values whose shapes
\* match it, set_args on a fresh message succeeds, and reading args then
\* returns values equal to the ones given.
C1_RoundTrip ==
    (call.n = 1 /\ ValidSignature(call.sig) /\ ArgsMatch(call.sig, call.args))
        => /\ call.ok
           /\ got.read => PyEquals(PyTuple(call.args.v), got.value)

\* C2: when set_args fails, the message body is what it was before the
\* call: nothing of the failed call is appended, no container is left open.
C2_FailureLeavesBody ==
    (call.op = "set_args" /\ ~call.ok) => msg = call.before

\* C4: in message_append_arg, the check on the value of a struct, a
\* dict-entry or an array comes before that container is opened and before
\* anything is written for it.
C4_ChecksBeforeOpen ==
    \A i, j \in 1..Len(call.log) :
        (/\ call.log[i].ev = "check"
         /\ call.log[i].sig[1] \in {"(", "{", "a"}
         /\ call.log[j].ev \in {"open", "write"}
         /\ call.log[j].id = call.log[i].id)
            => i < j

\* The activation id of message_append_arg or message_append_args returned 1,
\* and it wrote a basic value.
Succeeded(id) ==
    \E j \in 1..Len(call.log) : call.log[j].ev = "return1" /\ call.log[j].id = id
Wrote(id) ==
    \E j \in 1..Len(call.log) : call.log[j].ev = "write" /\ call.log[j].id = id

\* C8: for each integer type code, encoding a value succeeds if and only if
\* the value is an integer with min <= value <= max for that code; an
\* integer out of the range fails with ValueError, a value that is no
\* integer with TypeError, and in both cases nothing is written for it.
C8_IntegerRanges ==
    /\ \A k \in 1..Len(call.log) :
          LET e == call.log[k] IN
          (e.ev = "enter" /\ e.fn = "arg" /\ Len(e.sig) = 1
                /\ e.sig[1] \in {"y", "q", "u", "t", "n", "i", "x"})
             => /\ Succeeded(e.id) <=> InRange(e.sig[1], e.arg)
                /\ (IsInteger(e.arg) /\ ~InRange(e.sig[1], e.arg))
                      => call.err = "ValueError" /\ ~Wrote(e.id)
                /\ ~IsInteger(e.arg) => call.err = "TypeError" /\ ~Wrote(e.id)
    /\ \A c \in {"y", "q", "u", "t", "n", "i", "x"} :
          (/\ call.op = "set_args"
           /\ call.sig = <<c>>
           /\ call.args.t = "tuple"
           /\ Len(call.args.v) = 1
           /\ ~InRange(c, call.args.v[1]))
             => ~call.ok /\ msg = call.before

\* C8 witness: one below the minimum of int64 was refused with ValueError
\* and the body stayed empty.
C8_Witness ==
    /\ call.sig = <<"x">>
    /\ call.args = PyTuple(<<PyInt(IntMinusOne(RangeMin("x")))>>)
    /\ ~call.ok
    /\ call.err = "ValueError"
    /\ msg = EmptyMessage

\* C9: message_append_args returns 1 only when it was given as many values
\* as its signature has full types, at the top level and in a struct; with
\* one value fewer or one more it fails with an error.
C9_Arity ==
    \A k \in 1..Len(call.log) :
        LET e == call.log[k]
            types == CountFullTypes(e.sig)
        IN (e.fn = "args" /\ e.ev = "enter")
              => /\ Succeeded(e.id) => Len(e.arg.v) = types
                 /\ Len(e.arg.v) \in {types - 1, types + 1}
                       => ~Succeeded(e.id) /\ ~call.ok /\ call.err # ""

\* C9 witness: a struct of one int32 given two values was refused.
C9_Witness ==
    /\ call.sig = <<"(", "i", ")">>
    /\ call.args = PyTuple(<<PyTuple(<<One, Five>>)>>)
    /\ ~call.ok
    /\ call.err = "TypeError"
    /\ \E k \in 1..Len(call.log) :
          /\ call.log[k].ev = "return0"
          /\ call.log[k].fn = "args"
          /\ call.log[k].depth = 1

\* A value a variant can be made of: a sequence of two whose first item is a
\* str that is a valid signature of exactly one full type.
VariantValue(v) ==
    /\ v.t \in {"tuple", "list", "str", "bytes"}
    /\ Len(v.v) = 2
    /\ PySequence_Items(v)[1].t = "str"
    /\ ValidSignature(PySequence_Items(v)[1].v)
    /\ CountFullTypes(PySequence_Items(v)[1].v) = 1

\* C10: encoding against "v" succeeds only for such a value; the variant
\* container is opened only after the checks, for such a value only, and
\* what follows is the encoding of the second item against the first.
C10_VariantChecks ==
    \A k \in 1..Len(call.log) :
        LET e == call.log[k] IN
        (e.ev = "enter" /\ e.fn = "arg" /\ e.sig = <<"v">>)
           => /\ Succeeded(e.id) => VariantValue(e.arg)
              /\ \A j \in 1..Len(call.log) :
                    (call.log[j].ev = "open" /\ call.log[j].id = e.id)
                       => /\ VariantValue(e.arg)
                          /\ \A i \in 1..Len(call.log) :
                                (call.log[i].ev = "check" /\ call.log[i].id = e.id) => i < j
                          /\ call.log[j + 1].ev = "enter"
                          /\ call.log[j + 1].fn = "arg"
                          /\ call.log[j + 1].sig = PySequence_Items(e.arg)[1].v
                          /\ call.log[j + 1].arg = PySequence_Items(e.arg)[2]
                          /\ call.log[j + 1].depth = e.depth + 1

\* C11: for a signature check_signature accepts, message_append_arg returns
\* 1 for a dict-entry type only when the value is a sequence of exactly 2
\* elements; a value of any other number of elements is rejected.
C11_DictEntryOfTwo ==
    (call.op = "set_args" /\ ValidSignature(call.sig))
       => \A k \in 1..Len(call.log) :
             LET e == call.log[k] IN
             (e.ev = "enter" /\ e.fn = "arg" /\ e.sig[1] = "{" /\ Succeeded(e.id))
                => PySequence_Check(e.arg) /\ PySequence_Size(e.arg) = 2

\* What check_path and check_signature say of a str: PyArg_ParseTuple "s"
\* refuses a str with a NUL character in it, the others go to _check_path
\* and to _check_signature.
PassesCheckPath(o) ==
    /\ PyUnicode_Check(o)
    /\ \A k \in 1..Len(o.v) : o.v[k] # NUL
    /\ _check_path(CBuffer(o.v))
PassesCheckSignature(o) ==
    /\ PyUnicode_Check(o)
    /\ \A k \in 1..Len(o.v) : o.v[k] # NUL
    /\ _check_signature(CBuffer(o.v), 1, 0, 0).ok

\* C12: encoding against 'o' succeeds only for a str that passes check_path
\* and against 'g' only for one that passes check_signature; another value
\* is refused with an error and nothing is written for it.  Decoding an 'o'
\* or a 'g' returns the text of the item as it is in the message.
C12_TextValidated ==
    /\ \A k \in 1..Len(call.log) :
          LET e == call.log[k] IN
          (e.ev = "enter" /\ e.fn = "arg" /\ e.sig \in {<<"o">>, <<"g">>})
             => /\ Succeeded(e.id)
                   => IF e.sig = <<"o">> THEN PassesCheckPath(e.arg)
                      ELSE PassesCheckSignature(e.arg)
                /\ ~Succeeded(e.id) => ~Wrote(e.id) /\ ~call.ok /\ call.err # ""
    /\ (got.read /\ call.ok /\ call.n = 1 /\ call.sig \in {<<"o">>, <<"g">>})
          => got.value = PyTuple(<<PyStr(msg[1].items[1].v)>>)

\* C13: during set_args with a signature check_signature accepts, the depth
\* argument of message_append_arg never exceeds 64, the 32 array levels and
\* the 32 struct / dict-entry levels a signature can have.
C13_DepthBounded ==
    (call.op = "set_args" /\ ValidSignature(call.sig))
       => \A k \in 1..Len(call.log) :
             call.log[k].fn = "arg"
                => call.log[k].depth <= ArrayDepthLimit + StructDepthLimit

(***************************************************************************)
(* Claims about check_signature's result (checked under SpecSig)           *)
(***************************************************************************)
\* C14: when check_signature has returned, for any input string, no
\* exception is set: the verdict is the boolean alone.
C14_NoErrorPending ==
    sigres.called => ~sigres.exc

(***************************************************************************)
(* Claims about split_signature (checked under SpecSplit)                  *)
(***************************************************************************)
\* The first n strings of a list, joined.
RECURSIVE Joined(_, _)
Joined(Plist, n) == IF n = 0 THEN <<>> ELSE Joined(Plist, n - 1) \o Plist[n].v
\* p is one whole type: array markers, then one character that opens
\* nothing, or a bracket group from its opener to that opener's closer.
WholeType(p) ==
    LET m == Cardinality({j \in 1..Len(p) : \A i \in 1..j : p[i] = "a"})
        rest == SubSeq(p, m + 1, Len(p))
    IN \/ Len(rest) = 1 /\ rest[1] \notin {"a", "(", "{"}
       \/ Len(rest) >= 2 /\ rest[1] \in {"(", "{"} /\ rest[Len(rest)] = Closer(rest[1])

\* C15: when split_signature succeeds, the strings of the list it returns
\* are whole types and, joined in order, give the input back; for a
\* well-formed signature they are its top-level full types, one each, and
\* for the empty signature the list is empty.
C15_SplitsIntoFullTypes ==
    (strres.fn = "split_signature" /\ ~strres.exc)
       => /\ strres.ret.t = "list"
          /\ Joined(strres.ret.v, Len(strres.ret.v)) = sigin
          /\ \A k \in 1..Len(strres.ret.v) :
                strres.ret.v[k].t = "str" /\ WholeType(strres.ret.v[k].v)
          /\ WellFormed(sigin)
                => /\ Len(strres.ret.v) = CountFullTypes(sigin)
                   /\ \A k \in 1..Len(strres.ret.v) :
                         strres.ret.v[k] = PyStr(FullType(sigin, k))
          /\ sigin = <<>> => strres.ret = PyList(<<>>)

\* C15 witness: "a{is}i" was split into "a{is}" and "i".
C15_Witness ==
    /\ sigin = <<"a", "{", "i", "s", "}", "i">>
    /\ strres.fn = "split_signature"
    /\ ~strres.exc
    /\ strres.ret = PyList(<<PyStr(<<"a", "{", "i", "s", "}">>), PyStr(<<"i">>)>>)

\* C16: for a text of type codes and brackets that is not well-formed (a
\* bracket left open, an array marker without an element type, a closer
\* without an opener) split_signature raises and returns no list.
C16_InvalidRaises ==
    (/\ strres.fn = "split_signature"
     /\ \A k \in 1..Len(sigin) : sigin[k] \in BasicTypeCodes \cup {"a", "(", ")", "{", "}"}
     /\ ~WellFormed(sigin))
       => strres.exc /\ strres.ret = NullObject

(***************************************************************************)
(* Claims about a message set more than once (checked under Spec)          *)
(***************************************************************************)
\* The signature of an item of a message body, and of the first n items.
RECURSIVE ItemSignature(_)
RECURSIVE ItemsSignature(_, _)
ItemSignature(item) ==
    IF item.t = DBUS_TYPE_STRUCT
    THEN <<"(">> \o ItemsSignature(item.v, Len(item.v)) \o <<")">>
    ELSE IF item.t = DBUS_TYPE_DICT_ENTRY
    THEN <<"{">> \o ItemsSignature(item.v, Len(item.v)) \o <<"}">>
    ELSE IF item.t = DBUS_TYPE_ARRAY THEN <<"a">> \o item.x
    ELSE <<item.t>>
ItemsSignature(items, n) ==
    IF n = 0 THEN <<>> ELSE ItemsSignature(items, n - 1) \o ItemSignature(items[n])

\* C17: after a successful set_args(signature, args) the body of the
\* message is args converted by signature and nothing else, and its
\* signature is signature, also when set_args was called on it before.
C17_ArgsReplaced ==
    (call.op = "set_args" /\ call.ok)
       => /\ msg = message_set_args(EmptyMessage, call.sig, call.args).msg
          /\ ItemsSignature(msg[1].items, Len(msg[1].items)) = call.sig

(***************************************************************************)
(* Claims about check_bus_name and check_path (checked under SpecNames)    *)
(***************************************************************************)
Accepted == strres.ret = PyBool(TRUE) /\ ~strres.exc
Rejected == strres.ret # PyBool(TRUE)

\* The rule for one character of a bus name, at position i (from 1) of s;
\* `digits` says whether a digit may follow a '.'.
NameCharOK(s, i, digits) ==
    \/ s[i] \in Letters
    \/ s[i] \in {"_", "-"}
    \/ s[i] = "." /\ i > 1 /\ s[i - 1] \notin {".", ":"}
    \/ s[i] = ":" /\ i = 1
    \/ s[i] \in Digits /\ i > 1 /\ (s[i - 1] # "." \/ digits)
EndsWithDot(s) == s # <<>> /\ s[Len(s)] = "."
HasDot(s) == \E i \in 1..Len(s) : s[i] = "."
IsUniqueName(s) == s # <<>> /\ s[1] = ":"

\* C18: check_bus_name accepts a string if and only if it does not start
\* with '.', every character is a letter, '_', '-', a '.' whose previous
\* character is neither '.' nor ':', a ':' at position 0, or a digit that is
\* not at position 0 and does not follow a '.' unless the name starts with
\* ':', it does not end with '.', it has a '.' in it, and it has at most 255
\* characters; every other string, the empty one included, is rejected.
C18_BusNameGrammar ==
    strres.fn = "check_bus_name"
       => /\ Accepted <=> /\ \A i \in 1..Len(sigin) : NameCharOK(sigin, i, IsUniqueName(sigin))
                          /\ ~EndsWithDot(sigin)
                          /\ HasDot(sigin)
                          /\ Len(sigin) <= 255
          /\ ~Accepted => Rejected

\* C18 witness: a bus name of 255 characters that starts with ':' was
\* accepted.
C18_Witness ==
    /\ strres.fn = "check_bus_name"
    /\ Len(sigin) = 255
    /\ IsUniqueName(sigin)
    /\ Accepted

\* C19 as the specification has it: a name that begins with ':' needs no
\* '.', and its components may start with a digit; check_bus_name accepts
\* it when the rest of the rules hold.
C19_UniqueNameExempt ==
    (/\ strres.fn = "check_bus_name"
     /\ IsUniqueName(sigin)
     /\ \A i \in 1..Len(sigin) : NameCharOK(sigin, i, TRUE)
     /\ ~EndsWithDot(sigin)
     /\ Len(sigin) <= 255)
       => Accepted

\* C19, amended: a name that begins with ':' is exempt from the rule on
\* digits only, its components may start with a digit; like every bus name
\* it is accepted only with a '.' in it.
C19_UniqueNameDigits ==
    (strres.fn = "check_bus_name" /\ IsUniqueName(sigin))
       => /\ Accepted <=> /\ \A i \in 1..Len(sigin) : NameCharOK(sigin, i, TRUE)
                          /\ ~EndsWithDot(sigin)
                          /\ HasDot(sigin)
                          /\ Len(sigin) <= 255
          /\ ~HasDot(sigin) => strres.ret = PyBool(FALSE)

\* C19 witness: ":1.42" was accepted.
C19_Witness ==
    /\ strres.fn = "check_bus_name"
    /\ sigin = <<":", "1", ".", "4", "2">>
    /\ Accepted

\* C20: check_path accepts a string if and only if it starts with '/',
\* every later character is a letter, a digit, '_' or a '/' that does not
\* follow another '/', and it does not end with '/' unless it is "/"; the
\* empty string is rejected, and a path of any length is accepted.
C20_PathGrammar ==
    strres.fn = "check_path"
       => /\ Accepted <=> /\ sigin # <<>>
                          /\ sigin[1] = "/"
                          /\ \A i \in 2..Len(sigin) :
                                \/ sigin[i] \in Letters \cup Digits \cup {"_"}
                                \/ sigin[i] = "/" /\ sigin[i - 1] # "/"
                          /\ sigin[Len(sigin)] = "/" => sigin = <<"/">>
          /\ ~Accepted => Rejected

\* C20 witness: a path of more than 255 characters was accepted.
C20_Witness ==
    /\ strres.fn = "check_path"
    /\ Len(sigin) > 255
    /\ Accepted

(***************************************************************************)
(* Claims about check_interface (checked under SpecNames)                  *)
(***************************************************************************)
\* C21: check_interface accepts a string if and only if its first character
\* is a letter or '_', every later character is a letter, '_', a '.' that
\* does not follow another '.', or a digit that does not follow a '.', it
\* has a '.' in it, it does not end with '.', and it has at most 255
\* characters.
C21_InterfaceGrammar ==
    strres.fn = "check_interface"
       => /\ Accepted <=> /\ sigin # <<>>
                          /\ sigin[1] \in Letters \cup {"_"}
                          /\ \A i \in 2..Len(sigin) :
                                \/ sigin[i] \in Letters \cup {"_"}
                                \/ sigin[i] = "." /\ sigin[i - 1] # "."
                                \/ sigin[i] \in Digits /\ sigin[i - 1] # "."
                          /\ HasDot(sigin)
                          /\ ~EndsWithDot(sigin)
                          /\ Len(sigin) <= 255
          /\ ~Accepted => Rejected

\* C21 witness: an interface name of 255 characters was accepted.
C21_Witness ==
    /\ strres.fn = "check_interface"
    /\ Len(sigin) = 255
    /\ Accepted

(***************************************************************************)
(* Claims about the header setters (checked under SpecHdr)                 *)
(***************************************************************************)
\* The four grammars, on a text without its terminating NUL.
ValidPath(s) ==
    /\ s # <<>>
    /\ s[1] = "/"
    /\ \A i \in 2..Len(s) :
          \/ s[i] \in Letters \cup Digits \cup {"_"}
          \/ s[i] = "/" /\ s[i - 1] # "/"
    /\ s[Len(s)] = "/" => s = <<"/">>
ValidInterface(s) ==
    /\ s # <<>>
    /\ s[1] \in Letters \cup {"_"}
    /\ \A i \in 2..Len(s) :
          \/ s[i] \in Letters \cup {"_"}
          \/ s[i] = "." /\ s[i - 1] # "."
          \/ s[i] \in Digits /\ s[i - 1] # "."
    /\ HasDot(s)
    /\ ~EndsWithDot(s)
    /\ Len(s) <= 255
ValidMember(s) ==
    /\ s # <<>>
    /\ s[1] \in Letters \cup {"_"}
    /\ \A i \in 2..Len(s) : s[i] \in Letters \cup Digits \cup {"_"}
    /\ Len(s) <= 255
ValidBusName(s) ==
    /\ \A i \in 1..Len(s) : NameCharOK(s, i, IsUniqueName(s))
    /\ HasDot(s)
    /\ ~EndsWithDot(s)
    /\ Len(s) <= 255
\* Whether the text s is valid for a header field.
ValidFor(field, s) ==
    IF field = "path" THEN ValidPath(s)
    ELSE IF field \in {"interface", "error_name"} THEN ValidInterface(s)
    ELSE IF field = "member" THEN ValidMember(s)
    ELSE ValidBusName(s)

\* C22: a setter hands to libdbus only a string that passed the validator
\* of its field, and what it hands over is what the field then holds; when
\* the validator rejects the string, or the value is no str, the setter
\* fails with an exception and every field keeps the value it had.
C22_ValidatedBeforeSet ==
    hdr.field # "none"
       => /\ hdr.handed # NotHanded
                => /\ hdr.ok
                   /\ ValidFor(hdr.field, hdr.handed)
                   /\ hdr.header = [hdr.before EXCEPT ![hdr.field] = hdr.handed]
          /\ (~PyUnicode_Check(hdr.value) \/ ~ValidFor(hdr.field, PyUnicode_AsUTF8(hdr.value)))
                => /\ ~hdr.ok
                   /\ hdr.err # ""
                   /\ hdr.handed = NotHanded
                   /\ hdr.header = hdr.before
          /\ \A f \in HeaderFields : hdr.header[f] # NotSet => ValidFor(f, hdr.header[f])

\* C22 witness: a member that is too long was refused after another member
\* had been set, and the first one is still there.
C22_Witness ==
    /\ hdr.field = "member"
    /\ ~hdr.ok
    /\ hdr.err = "ValueError"
    /\ hdr.value = PyStr(<<"!">>)
    /\ hdr.before["member"] = Rep("a", 255)
    /\ hdr.header["member"] = Rep("a", 255)

\* A step that is a call of the method op of the Connection object.
ConnStep(op) == conn'.n = conn.n + 1 /\ conn'.op = op
\* The members of the filter set and the filters of libdbus are the same
\* objects, each once.
FiltersMirrored(c) ==
    /\ Len(c.dbus.filters) = Cardinality(c.filters)
    /\ \A f \in c.filters : FilterIndex(c.dbus.filters, Address(f)) # 0

\* C23: remove_filter(f) succeeds exactly when the object f is in the
\* filter set (it was added and not removed since) and otherwise changes
\* nothing; add_filter(f) for an f that is in the set registers nothing
\* more; and after every step the filters registered with libdbus are
\* exactly the members of the filter set.
C23_FiltersMirrored ==
    [][/\ ConnStep("remove_filter") =>
             /\ conn'.ok <=> conn'.arg \in conn.filters
             /\ ~conn'.ok => /\ conn'.filters = conn.filters
                             /\ conn'.dbus.filters = conn.dbus.filters
       /\ ConnStep("add_filter") /\ conn'.arg \in conn.filters =>
             conn'.dbus.filters = conn.dbus.filters
       /\ FiltersMirrored(conn')]_vars

\* A step in which libdbus called handler_callback.
HandlerStep == conn'.disp.calls = conn.disp.calls + 1
\* The Python handler returned an object that is true.
ReturnedTrue(r) == r.called /\ r.Presult.t = "bool" /\ r.Presult.v

\* C24: handler_callback reports the message as handled exactly when the
\* Python handler was called and returned a true value; after a false
\* value or an exception no exception is left set, the message is reported
\* as not yet handled and the dispatch goes on with the next handler; with
\* no Python object attached to the connection the handler is not called
\* and the message is reported as not yet handled.
C24_HandledWhenTrue ==
    [][HandlerStep =>
          /\ conn'.disp.last.ret = "HANDLED" <=> ReturnedTrue(conn'.disp.last)
          /\ ~ReturnedTrue(conn'.disp.last) =>
                /\ ~conn'.disp.last.exc
                /\ conn'.disp.last.ret = "NOT_YET_HANDLED"
                /\ conn'.disp.todo = Tail(conn.disp.todo)
          /\ conn'.disp.last.called <=> conn.dbus.data # NULL]_vars

\* C25: after each add_timeout_callback and timeout_toggled_callback call
\* for a timeout (no method of the loop or of a timer having raised), a
\* timer is scheduled with the loop if and only if the timeout is enabled,
\* and at most one timer is scheduled.
C25_TimerIffEnabled ==
    (tmo.data # NULL /\ ~tmo.failed) =>
        /\ (tmo.timers # {}) <=> tmo.enabled
        /\ Cardinality(tmo.timers) <= 1

\* C26: as long as no method of the loop has raised, after each add and
\* toggle of a watch the loop has a reader for it if and only if it is
\* enabled and has the READABLE flag, and a writer if and only if it is
\* enabled and has the WRITABLE flag; add_reader and add_writer were never
\* called while the loop had one; and after remove_watch_callback the loop
\* has neither.
C26_WatchRegistered ==
    ~wat.failed =>
        /\ wat.data # NULL =>
              /\ wat.readers <=> (wat.enabled /\ HasFlag(wat.flags, DBUS_WATCH_READABLE))
              /\ wat.writers <=> (wat.enabled /\ HasFlag(wat.flags, DBUS_WATCH_WRITABLE))
        /\ ~wat.twice
        /\ wat.op = "remove" => ~wat.readers /\ ~wat.writers
\* A watch with both flags after MaxLoopCalls callbacks, the last of them a
\* toggle that enabled it: the loop has its reader and its writer.
C26_Witness ==
    /\ wat.op = "toggled" /\ wat.n = MaxLoopCalls /\ ~wat.failed
    /\ wat.enabled /\ HasFlag(wat.flags, DBUS_WATCH_READABLE)
    /\ HasFlag(wat.flags, DBUS_WATCH_WRITABLE)
    /\ wat.readers /\ wat.writers

\* C27: whenever the connection handle of the Connection object is NULL,
\* no loop is installed, the filter set is empty and the object-path table
\* is empty; no call has failed on the assertions of _close_connection.
C27_ClosedIsEmpty ==
    /\ conn.connection = NULL =>
          /\ conn.loop.t = "NULL"
          /\ conn.filters = {}
          /\ conn.object_paths = {}
    /\ conn.err # "AssertionError"
\* A Connection object after three calls, the last a close that went
\* through, while libdbus still has a handler to call in the dispatch it
\* began before the close: the call between the opening and the close
\* registered that handler, and the close found it in the set or the table.
C27_Witness ==
    /\ conn.op = "close" /\ conn.ok /\ conn.n = 3
    /\ conn.connection = NULL
    /\ conn.disp.todo # <<>>

\* C28: for a signature that check_signature accepts, set_args does not
\* fail with "unknown format character", and message_read_arg returns a
\* value for an item of each basic type code the signature has (a variant
\* is read with the value in it).
C28_EncoderHasEveryType ==
    (call.op = "set_args" /\ PassesCheckSignature(PyStr(call.sig))) =>
        /\ call.err # "Error: unknown format character"
        /\ \A k \in 1..Len(call.sig) :
              call.sig[k] \in BasicTypeCodes \ {DBUS_TYPE_VARIANT} =>
                  message_read_arg(Item(call.sig[k], <<0, 0>>, <<>>)).t # "NULL"

\* The characters of s from position i on, n of them.
Piece(s, i, n) == [k \in 1..n |-> s[i + k - 1]]
\* The lengths of the first n strings of the list, added up.
RECURSIVE LengthUpTo(_, _)
LengthUpTo(Plist, n) == IF n = 0 THEN 0 ELSE LengthUpTo(Plist, n - 1) + Len(Plist[n].v)

\* C29: when split_signature succeeds, every piece is non-empty, piece k
\* is the stretch of the input that begins where piece k - 1 ended, and
\* the pieces together are as long as the input: no character is dropped,
\* repeated or reordered.
C29_PiecesCoverInput ==
    (strres.fn = "split_signature" /\ ~strres.exc)
       => /\ \A k \in 1..Len(strres.ret.v) :
                /\ Len(strres.ret.v[k].v) > 0
                /\ LengthUpTo(strres.ret.v, k) <= Len(sigin)
                /\ strres.ret.v[k].v = Piece(sigin, LengthUpTo(strres.ret.v, k - 1) + 1,
                                             Len(strres.ret.v[k].v))
          /\ LengthUpTo(strres.ret.v, Len(strres.ret.v)) = Len(sigin)
\* C29 witness: a text of MaxSigLen characters was split into two pieces
\* or more, one of them of several characters.
C29_Witness ==
    /\ strres.fn = "split_signature"
    /\ ~strres.exc
    /\ Len(sigin) = MaxSigLen
    /\ Len(strres.ret.v) >= 2
    /\ \E k \in 1..Len(strres.ret.v) : Len(strres.ret.v[k].v) >= 2

=============================================================================
